---- MODULE Spec2Model ----
(***************************************************************************)
(* retro-skins-platform: the skin model (engine/skins.ts), the command     *)
(* dispatch (cli.ts) and the adapters it calls.                            *)
(*                                                                         *)
(* Conventions.  A JavaScript object is a function whose DOMAIN is the set *)
(* of its present properties; a missing property reads as Undefined.       *)
(* Strings are TLA+ strings, used as sequences of characters.  Numbers     *)
(* with decimals (intensity, effect parameters) are kept in hundredths:    *)
(* intensity 0.4 is 40, so the range [0,1] is 0..100.  Non-ASCII glyphs in *)
(* the console messages (the leading emoji) are left out of the strings.   *)
(***************************************************************************)
EXTENDS Integers, Sequences, FiniteSets, TLC

VARIABLES
  pc,        \* cli.ts process: "ready" | "prompt" | "exited"
  command,   \* the parsed command line: name, arguments and options
  cwd,       \* process.cwd()
  fs,        \* the file system: path -> contents, for the files that exist
  fs0,       \* the file system when the process started
  events,    \* what the process did, in order: console lines, calls, writes
  exitCode,  \* process exit code; NoExit while running
  call,      \* skins.ts library call under way: createSkin or a preset producer
  ret,       \* what that call returned; NotReturned before
  heap,      \* object store: address -> object (properties hold values or references)
  handles,   \* SkinConfig references handed out by preset producers, oldest first
  writes,    \* number of property writes callers have made through their handles
  context,        \* RetroRenderEngine.context: Null or the RenderContext
  effects,        \* RetroRenderEngine.effects: the Map from effect type to effect
  shakeOffset,    \* RetroRenderEngine.shakeOffset
  animationFrame, \* RetroRenderEngine.animationFrame: a request id, 0 at first
  lastTime,       \* RetroRenderEngine.lastTime: timestamp of the last applied frame
  dom,            \* the elements of the page: inline style and children of each
  browser,        \* the browser's clock and its list of animation frame callbacks
  last,           \* the last step of the engine or the browser, and what it did
  caller          \* what the engine's caller has called so far

cliVars  == <<pc, command, cwd, fs, fs0, events, exitCode>>
skinVars == <<call, ret>>
heapVars == <<heap, handles, writes>>
engineVars == <<context, effects, shakeOffset, animationFrame, lastTime, dom, browser, last, caller>>
vars     == <<pc, command, cwd, fs, fs0, events, exitCode, call, ret, heap, handles, writes,
              context, effects, shakeOffset, animationFrame, lastTime, dom, browser, last, caller>>

----------------------------------------------------------------------------
(* JavaScript values and strings                                           *)

\* obj.prop || dflt, for a property of type string: undefined and '' are falsy
OrString(obj, prop, dflt) ==
  IF prop \in DOMAIN obj /\ obj[prop] # "" THEN obj[prop] ELSE dflt

\* obj.prop || dflt, for a property holding an object or an array: only undefined
\* is falsy (an empty array and an empty object are truthy)
OrObject(obj, prop, dflt) ==
  IF prop \in DOMAIN obj THEN obj[prop] ELSE dflt

UpperCaseLetters == "ABCDEFGHIJKLMNOPQRSTUVWXYZ"
LowerCaseLetters == "abcdefghijklmnopqrstuvwxyz"

CharAt(s, i) == SubSeq(s, i, i)

LowerChar(c) ==
  IF \E i \in 1..26 : CharAt(UpperCaseLetters, i) = c
  THEN CharAt(LowerCaseLetters, CHOOSE i \in 1..26 : CharAt(UpperCaseLetters, i) = c)
  ELSE c

UpperChar(c) ==
  IF \E i \in 1..26 : CharAt(LowerCaseLetters, i) = c
  THEN CharAt(UpperCaseLetters, CHOOSE i \in 1..26 : CharAt(LowerCaseLetters, i) = c)
  ELSE c

RECURSIVE toLowerCase(_)
toLowerCase(s) == IF s = "" THEN "" ELSE LowerChar(Head(s)) \o toLowerCase(Tail(s))

RECURSIVE toUpperCase(_)
toUpperCase(s) == IF s = "" THEN "" ELSE UpperChar(Head(s)) \o toUpperCase(Tail(s))

startsWith(s, prefix) == Len(s) >= Len(prefix) /\ SubSeq(s, 1, Len(prefix)) = prefix

\* String.prototype.includes
includes(s, part) ==
  \E i \in 1..(Len(s) - Len(part) + 1) : SubSeq(s, i, i + Len(part) - 1) = part

RECURSIVE padEnd(_, _)
padEnd(s, n) == IF Len(s) >= n THEN s ELSE padEnd(s \o " ", n)

\* Array.prototype.join over a sequence of strings
RECURSIVE joinWith(_, _)
joinWith(seq, sep) ==
  IF seq = <<>> THEN ""
  ELSE IF Len(seq) = 1 THEN seq[1]
  ELSE seq[1] \o sep \o joinWith(Tail(seq), sep)

----------------------------------------------------------------------------
(* engine/skins.ts: createSkin and the preset catalog                      *)

DefaultColors ==
  [background |-> "#0D0208", foreground |-> "#00FF41", accent |-> "#008F11", glow |-> "#00FF41"]

DefaultPerformance == [gpuAcceleration |-> TRUE, targetFps |-> 60, quality |-> "high"]

ClampIntensity(e) ==
  [e EXCEPT !.intensity = IF @ > 100 THEN 100 ELSE IF @ < 0 THEN 0 ELSE @]

createSkinClamping(config) ==
  [name        |-> OrString(config, "name", "Default"),
   effects     |-> LET es == OrObject(config, "effects", <<>>)
                   IN  [i \in 1..Len(es) |-> ClampIntensity(es[i])],
   colors      |-> OrObject(config, "colors", DefaultColors),
   performance |-> OrObject(config, "performance", DefaultPerformance)]

createSkin(config) ==
  [name        |-> OrString(config, "name", "Default"),
   effects     |-> OrObject(config, "effects", <<>>),
   colors      |-> OrObject(config, "colors", DefaultColors),
   performance |-> OrObject(config, "performance", DefaultPerformance)]

\* phosphor: lines 120-153
PhosphorLiteral ==
  [name |-> "Phosphor CRT",
   effects |-> <<
     [type |-> "crt-scanlines", intensity |-> 40, params |-> [lineSpacing |-> 200]],
     [type |-> "phosphor-glow", intensity |-> 60, params |-> [radius |-> 300, falloff |-> 50]],
     [type |-> "phosphor-persistence", intensity |-> 30, params |-> [decay |-> 10]],
     [type |-> "crt-flicker", intensity |-> 10, params |-> [frequency |-> 10]],
     [type |-> "vignette", intensity |-> 50, params |-> [radius |-> 80]]
   >>,
   colors |-> [background |-> "#0D0208", foreground |-> "#00FF41", accent |-> "#008F11", glow |-> "#00FF41",
     palette |-> [black |-> "#0D0208", red |-> "#FF3333", green |-> "#00FF41", yellow |-> "#CCFF00",
       blue |-> "#008F11", purple |-> "#FF00FF", cyan |-> "#00FFFF", white |-> "#00FF41",
       brightBlack |-> "#1A1A1A", brightRed |-> "#FF6666", brightGreen |-> "#66FF66", brightYellow |-> "#FFFF66",
       brightBlue |-> "#66FF66", brightPurple |-> "#FF66FF", brightCyan |-> "#66FFFF", brightWhite |-> "#66FF66"]]]

\* amber: lines 156-188
AmberLiteral ==
  [name |-> "Amber Monochrome",
   effects |-> <<
     [type |-> "crt-scanlines", intensity |-> 30, params |-> [lineSpacing |-> 200]],
     [type |-> "phosphor-glow", intensity |-> 50, params |-> [radius |-> 200, falloff |-> 60]],
     [type |-> "crt-flicker", intensity |-> 5, params |-> [frequency |-> 5]],
     [type |-> "vignette", intensity |-> 40, params |-> [radius |-> 90]]
   >>,
   colors |-> [background |-> "#1A0F00", foreground |-> "#FFB000", accent |-> "#FF8C00", glow |-> "#FFB000",
     palette |-> [black |-> "#1A0F00", red |-> "#FF6600", green |-> "#FFB000", yellow |-> "#FFCC00",
       blue |-> "#994400", purple |-> "#FF8800", cyan |-> "#FFAA00", white |-> "#FFB000",
       brightBlack |-> "#332200", brightRed |-> "#FF8800", brightGreen |-> "#FFCD00", brightYellow |-> "#FFDD66",
       brightBlue |-> "#AA6600", brightPurple |-> "#FF9900", brightCyan |-> "#FFDD88", brightWhite |-> "#FFEE99"]]]

\* lcd: lines 191-223
LcdLiteral ==
  [name |-> "LCD Display",
   effects |-> <<
     [type |-> "crt-scanlines", intensity |-> 20, params |-> [lineSpacing |-> 100]],
     [type |-> "phosphor-glow", intensity |-> 30, params |-> [radius |-> 100, falloff |-> 80]],
     [type |-> "color-shift", intensity |-> 10, params |-> [shift |-> 2]],
     [type |-> "vignette", intensity |-> 20, params |-> [radius |-> 95]]
   >>,
   colors |-> [background |-> "#0A0A0A", foreground |-> "#E8E8E8", accent |-> "#A0A0A0", glow |-> "#FFFFFF",
     palette |-> [black |-> "#0A0A0A", red |-> "#FF4444", green |-> "#44FF44", yellow |-> "#FFFF44",
       blue |-> "#4444FF", purple |-> "#FF44FF", cyan |-> "#44FFFF", white |-> "#E8E8E8",
       brightBlack |-> "#333333", brightRed |-> "#FF8888", brightGreen |-> "#88FF88", brightYellow |-> "#FFFF88",
       brightBlue |-> "#8888FF", brightPurple |-> "#FF88FF", brightCyan |-> "#88FFFF", brightWhite |-> "#FFFFFF"]]]

\* cyber: lines 226-259
CyberLiteral ==
  [name |-> "Cyber Purple",
   effects |-> <<
     [type |-> "crt-scanlines", intensity |-> 35, params |-> [lineSpacing |-> 200]],
     [type |-> "phosphor-glow", intensity |-> 70, params |-> [radius |-> 400, falloff |-> 40]],
     [type |-> "crt-flicker", intensity |-> 8, params |-> [frequency |-> 8]],
     [type |-> "animated-bg", intensity |-> 30, params |-> [speed |-> 50]],
     [type |-> "noise", intensity |-> 5, params |-> [amount |-> 2]]
   >>,
   colors |-> [background |-> "#0D0D1A", foreground |-> "#B388FF", accent |-> "#7C4DFF", glow |-> "#E040FB",
     palette |-> [black |-> "#0D0D1A", red |-> "#FF0055", green |-> "#00FF66", yellow |-> "#FFFF00",
       blue |-> "#0085FF", purple |-> "#B388FF", cyan |-> "#00FFFF", white |-> "#E0E0FF",
       brightBlack |-> "#2A2A3A", brightRed |-> "#FF4488", brightGreen |-> "#66FF99", brightYellow |-> "#FFFF66",
       brightBlue |-> "#6699FF", brightPurple |-> "#D199FF", brightCyan |-> "#99FFFF", brightWhite |-> "#FFFFFF"]]]

\* terminal: lines 262-293
TerminalLiteral ==
  [name |-> "Classic Terminal",
   effects |-> <<
     [type |-> "crt-scanlines", intensity |-> 25, params |-> [lineSpacing |-> 200]],
     [type |-> "phosphor-glow", intensity |-> 40, params |-> [radius |-> 200, falloff |-> 50]],
     [type |-> "vignette", intensity |-> 30, params |-> [radius |-> 85]]
   >>,
   colors |-> [background |-> "#0C0C14", foreground |-> "#4AF626", accent |-> "#2AAE22", glow |-> "#4AF626",
     palette |-> [black |-> "#0C0C14", red |-> "#CC3333", green |-> "#4AF626", yellow |-> "#CCFF00",
       blue |-> "#0066CC", purple |-> "#FF00FF", cyan |-> "#00CCFF", white |-> "#4AF626",
       brightBlack |-> "#1A1A2A", brightRed |-> "#FF6666", brightGreen |-> "#88FF88", brightYellow |-> "#FFFF66",
       brightBlue |-> "#6699FF", brightPurple |-> "#FF66FF", brightCyan |-> "#66FFFF", brightWhite |-> "#99FF99"]]]

\* puncore: lines 296-327
PuncoreLiteral ==
  [name |-> "Puncore Neon",
   effects |-> <<
     [type |-> "crt-scanlines", intensity |-> 10, params |-> [lineSpacing |-> 100]],
     [type |-> "phosphor-glow", intensity |-> 50, params |-> [radius |-> 300, falloff |-> 40]],
     [type |-> "vignette", intensity |-> 15, params |-> [radius |-> 95]]
   >>,
   colors |-> [background |-> "#575757", foreground |-> "#858585", accent |-> "#FF5700", glow |-> "#8500FF",
     palette |-> [black |-> "#575757", red |-> "#FF0085", green |-> "#00FF00", yellow |-> "#FF5700",
       blue |-> "#0085FF", purple |-> "#8500FF", cyan |-> "#0085FF", white |-> "#858585",
       brightBlack |-> "#313131", brightRed |-> "#FF0085", brightGreen |-> "#00FF00", brightYellow |-> "#FF8500",
       brightBlue |-> "#0085FF", brightPurple |-> "#8500FF", brightCyan |-> "#00FFFF", brightWhite |-> "#FFFFFF"]]]

\* The six entries of PRESET_SKINS are arrow functions around an object literal:
\* calling one evaluates the literal below and passes it to createSkin.
PresetLiteralNoPalette(key) ==
  CASE key = "phosphor" -> PhosphorLiteral
    [] key = "amber"    -> AmberLiteral
    [] key = "lcd"      -> LcdLiteral
    [] key = "cyber"    -> CyberLiteral
    [] key = "terminal" -> TerminalLiteral
    [] key = "puncore"  ->
         [PuncoreLiteral EXCEPT !.colors =
            [f \in {"background", "foreground", "accent", "glow"} |-> PuncoreLiteral.colors[f]]]

\* a catalog whose terminal preset lists the scanlines a second time
PresetLiteralRepeatedEffect(key) ==
  CASE key = "phosphor" -> PhosphorLiteral
    [] key = "amber"    -> AmberLiteral
    [] key = "lcd"      -> LcdLiteral
    [] key = "cyber"    -> CyberLiteral
    [] key = "terminal" ->
         [TerminalLiteral EXCEPT !.effects =
            Append(@, [type |-> "crt-scanlines", intensity |-> 50, params |-> [lineSpacing |-> 100]])]
    [] key = "puncore"  -> PuncoreLiteral

\* an lcd entry with its background and foreground exchanged
PresetLiteralLcdInverted(key) ==
  CASE key = "phosphor" -> PhosphorLiteral
    [] key = "amber"    -> AmberLiteral
    [] key = "lcd"      ->
         [LcdLiteral EXCEPT !.colors.background = LcdLiteral.colors.foreground,
                            !.colors.foreground = LcdLiteral.colors.background]
    [] key = "cyber"    -> CyberLiteral
    [] key = "terminal" -> TerminalLiteral
    [] key = "puncore"  -> PuncoreLiteral

PresetLiteral(key) ==
  CASE key = "phosphor" -> PhosphorLiteral
    [] key = "amber"    -> AmberLiteral
    [] key = "lcd"      -> LcdLiteral
    [] key = "cyber"    -> CyberLiteral
    [] key = "terminal" -> TerminalLiteral
    [] key = "puncore"  -> PuncoreLiteral

\* a catalog from before the puncore entry was added
PresetKeysFive == <<"phosphor", "amber", "lcd", "cyber", "terminal">>

\* Object.keys(PRESET_SKINS): the own keys, in insertion order
PresetKeys == <<"phosphor", "amber", "lcd", "cyber", "terminal", "puncore">>

CatalogKeys == {PresetKeys[i] : i \in 1..Len(PresetKeys)}

\* PRESET_SKINS[key]()
PRESET_SKINS(key) == createSkin(PresetLiteral(key))

----------------------------------------------------------------------------
(* Calls into skins.ts, one per behaviour: the caller's argument is drawn  *)
(* in SkinInit, the call returns in one step.                              *)

NotReturned == [returned |-> FALSE]

SkinFields == {"name", "effects", "colors", "performance"}

\* Values a caller may supply.  The effects include intensities outside
\* [0,1] (150 is 1.5, -20 is -0.2); the second colour scheme is the one of the
\* usage example in BUILD_STATUS.md and has no palette.
SampleValues(field) ==
  CASE field = "name" -> {"", "My Custom Skin"}
    [] field = "effects" ->
         { <<>>,
           << [type |-> "crt-scanlines", intensity |-> 50, params |-> <<>>],
              [type |-> "phosphor-glow", intensity |-> 70, params |-> <<>>] >>,
           << [type |-> "shake", intensity |-> 150, params |-> [amount |-> 300]],
              [type |-> "noise", intensity |-> -20, params |-> <<>>] >> }
    [] field = "colors" ->
         { PhosphorLiteral.colors,
           [background |-> "#000000", foreground |-> "#00FF00",
            accent |-> "#00AA00", glow |-> "#00FF00"] }
    [] field = "performance" ->
         { [gpuAcceleration |-> FALSE, targetFps |-> 30, quality |-> "low"] }

\* One property of the argument: left out, or given one of the sample values
Supplied(field) ==
  {[given |-> FALSE]} \cup {[given |-> TRUE, value |-> v] : v \in SampleValues(field)}

\* the object literal with exactly the properties that are given
ObjectOf(n, e, c, p) ==
  LET opt == [name |-> n, effects |-> e, colors |-> c, performance |-> p]
  IN  [f \in {g \in SkinFields : opt[g].given} |-> opt[f].value]

\* Partial<SkinConfig>: any subset of the four fields
PartialConfigs ==
  { ObjectOf(n, e, c, p) : n \in Supplied("name"), e \in Supplied("effects"),
                           c \in Supplied("colors"), p \in Supplied("performance") }

SkinCalls ==
  { [op |-> "createSkin", config |-> c] : c \in PartialConfigs }
    \cup { [op |-> "preset", key |-> k] : k \in CatalogKeys }

Idle == [op |-> "none"]

CreateSkinCall ==
  /\ call.op = "createSkin"
  /\ ret = NotReturned
  /\ ret' = [returned |-> TRUE, value |-> createSkin(call.config)]
  /\ UNCHANGED <<call, cliVars, heapVars, engineVars>>

PresetCall ==
  /\ call.op = "preset"
  /\ ret = NotReturned
  /\ ret' = [returned |-> TRUE, value |-> PRESET_SKINS(call.key)]
  /\ UNCHANGED <<call, cliVars, heapVars, engineVars>>

----------------------------------------------------------------------------
(* Node's path.join and the file system                                    *)

\* the segments of a path between its '/' separators
RECURSIVE Segments(_, _)
Segments(s, cur) ==
  IF s = "" THEN <<cur>>
  ELSE IF Head(s) = "/" THEN <<cur>> \o Segments(Tail(s), "")
  ELSE Segments(Tail(s), cur \o Head(s))

\* path.normalize over the segments of an absolute path: '' and '.' are
\* dropped, '..' removes the segment before it (and nothing at the root)
RECURSIVE Resolve(_, _)
Resolve(segs, stack) ==
  IF segs = <<>> THEN stack
  ELSE IF Head(segs) \in {"", "."} THEN Resolve(Tail(segs), stack)
  ELSE IF Head(segs) = ".."
       THEN Resolve(Tail(segs), IF stack = <<>> THEN stack ELSE SubSeq(stack, 1, Len(stack) - 1))
  ELSE Resolve(Tail(segs), Append(stack, Head(segs)))

\* path.join(dir, rel) for an absolute dir, as process.cwd() is
join(dir, rel) ==
  LET joined == dir \o "/" \o rel
      kept   == Resolve(Segments(joined, ""), <<>>)
      slash  == IF kept # <<>> /\ CharAt(joined, Len(joined)) = "/" THEN "/" ELSE ""
  IN  "/" \o joinWith(kept, "/") \o slash

\* fs.writeFileSync(path, data): creates the file or replaces its contents
writeFileSync(files, path, data) ==
  [p \in DOMAIN files \cup {path} |-> IF p = path THEN data ELSE files[p]]

----------------------------------------------------------------------------
(* cli.ts: what a handler does is a list of events, in program order       *)

Out(text) == [kind |-> "stdout", text |-> text]     \* console.log
Err(text) == [kind |-> "stderr", text |-> text]     \* console.error
Looked(key) == [kind |-> "lookup", key |-> key]     \* PRESET_SKINS[key]
Called(fn) == [kind |-> "call", fn |-> fn]          \* skinFn()
Rendered(adapter, arg) == [kind |-> "adapter", adapter |-> adapter, arg |-> arg]
Wrote(path, data) == [kind |-> "write", path |-> path, data |-> data]
Prompted(choices) == [kind |-> "prompt", choices |-> choices]

\* exitCode while the process is still running
NoExit == 0 - 1

Finished(evs, files, code) == [events |-> evs, fs |-> files, exitCode |-> code]

\* process.exit(1) after the two lines of an error report
Rejected(evs, files, what, hint) == Finished(evs \o <<Err(what), Out(hint)>>, files, 1)

\* an exception nobody catches: Node prints it on stderr and exits with code 1
Uncaught(evs, files, error) == Finished(evs \o <<Err("Uncaught " \o error)>>, files, 1)

VALID_TERMINALS == <<"wezterm", "alacritty", "kitty", "windows-terminal">>

\* Array.prototype.includes over a sequence of strings
ArrayIncludes(arr, s) == \E i \in 1..Len(arr) : arr[i] = s

\* a check that looks for the key inside the joined list instead
ValidTerminalSubstring(terminal) ==
  includes(joinWith(VALID_TERMINALS, ","), toLowerCase(terminal))

\* VALID_TERMINALS.includes(terminal.toLowerCase())
ValidTerminal(terminal) == ArrayIncludes(VALID_TERMINALS, toLowerCase(terminal))

\* Properties every object literal inherits from Object.prototype
ObjectPrototypeKeys ==
  {"constructor", "toString", "toLocaleString", "valueOf", "hasOwnProperty",
   "isPrototypeOf", "propertyIsEnumerable", "__proto__",
   "__defineGetter__", "__defineSetter__", "__lookupGetter__", "__lookupSetter__"}

\* PRESET_SKINS[key]: an own property, else an inherited one, else undefined
PresetLookup(key) ==
  IF key \in CatalogKeys THEN [kind |-> "producer", key |-> key]
  ELSE IF key \in ObjectPrototypeKeys THEN [kind |-> "inherited", key |-> key]
  ELSE [kind |-> "undefined", key |-> key]

\* !skinFn
Missing(skinFn) == skinFn.kind = "undefined"

\* skinFn(): a plain call, so `this` is undefined inside an inherited method
Invoke(skinFn) ==
  IF skinFn.kind = "producer"
  THEN [threw |-> FALSE, type |-> "skin", value |-> PRESET_SKINS(skinFn.key)]
  ELSE IF skinFn.key = "constructor"      \* Object() returns a new empty object
  THEN [threw |-> FALSE, type |-> "object", value |-> <<>>]
  ELSE IF skinFn.key = "toString"
  THEN [threw |-> FALSE, type |-> "string", value |-> "[object Undefined]"]
  ELSE IF skinFn.key = "isPrototypeOf"
  THEN [threw |-> FALSE, type |-> "boolean", value |-> FALSE]
  ELSE [threw |-> TRUE, error |-> "TypeError"]   \* not a function, or no `this` to convert

----------------------------------------------------------------------------
(* engine/adapters/*: skin -> configuration text.  One function per target; *)
(* each validates the colours it consumes and then emits its format.        *)

HexDigits == "0123456789ABCDEFabcdef"

\* ^#[0-9A-Fa-f]{6}$
IsHexColor(s) ==
  /\ Len(s) = 7
  /\ CharAt(s, 1) = "#"
  /\ \A i \in 2..7 : \E j \in 1..Len(HexDigits) : CharAt(s, i) = CharAt(HexDigits, j)

\* the 16 ANSI slots, in the order every adapter lists them
PaletteOrder ==
  <<"black", "red", "green", "yellow", "blue", "purple", "cyan", "white",
    "brightBlack", "brightRed", "brightGreen", "brightYellow",
    "brightBlue", "brightPurple", "brightCyan", "brightWhite">>

PaletteSlots == {PaletteOrder[i] : i \in 1..Len(PaletteOrder)}

HexUpper == "0123456789ABCDEF"

\* parseInt of one hex digit, either case
HexValue(ch) == (CHOOSE j \in 1..Len(HexUpper) : CharAt(HexUpper, j) = UpperChar(ch)) - 1

\* the k-th of the three colour components of #RRGGBB, 0..255; a string that
\* is not #RRGGBB has no components, and 0 stands for each
Channel(color, k) ==
  IF IsHexColor(color)
  THEN Len(HexUpper) * HexValue(CharAt(color, 2 * k)) + HexValue(CharAt(color, 2 * k + 1))
  ELSE 0

\* one component as two upper-case hex digits
HexByte(n) ==
  CharAt(HexUpper, (n \div Len(HexUpper)) + 1) \o CharAt(HexUpper, (n % Len(HexUpper)) + 1)

HexColor(r, g, b) == "#" \o HexByte(r) \o HexByte(g) \o HexByte(b)

\* the literal hue set of the fallback: red, green, yellow, blue, purple, cyan
BaseHues == <<"#CC0000", "#00CC00", "#CCCC00", "#0000CC", "#CC00CC", "#00CCCC">>

\* the fixed factor of the bright variants, in hundredths (0.4)
LerpPercent == 40

\* a literal hue seeded by the accent: the mean of the two, per component
Mix(a, b) ==
  HexColor((Channel(a, 1) + Channel(b, 1)) \div 2,
           (Channel(a, 2) + Channel(b, 2)) \div 2,
           (Channel(a, 3) + Channel(b, 3)) \div 2)

\* a colour moved toward white by the fixed factor, per component
LerpToWhite(c) ==
  LET up(v) == v + ((255 - v) * LerpPercent) \div 100
  IN  HexColor(up(Channel(c, 1)), up(Channel(c, 2)), up(Channel(c, 3)))

\* the palette of a skin that declares none: black is the background, white
\* the foreground, the six hues are seeded by the accent, and each bright
\* slot is its base slot moved toward white
DerivedPalette(colors) ==
  LET base == <<colors.background>>
                \o [i \in 1..Len(BaseHues) |-> Mix(BaseHues[i], colors.accent)]
                \o <<colors.foreground>>
  IN  base \o [i \in 1..Len(base) |-> LerpToWhite(base[i])]

\* the 16 colours every adapter emits, in slot order: the skin's palette, or
\* the derived one when the skin has none
Ansi16(colors) ==
  IF "palette" \in DOMAIN colors
  THEN [i \in 1..Len(PaletteOrder) |-> colors.palette[PaletteOrder[i]]]
  ELSE DerivedPalette(colors)

\* a validation that looks at the two primary colours only
ConsumedColorsPrimaryOnly(colors) == {colors.background, colors.foreground}

\* the colour values an adapter reads
ConsumedColors(colors) ==
  {colors.background, colors.foreground}
    \cup (IF "palette" \in DOMAIN colors THEN {colors.palette[s] : s \in PaletteSlots}
          ELSE {colors.accent})

\* the lines `prefix(i) value suffix` of a colour table
RECURSIVE ColorLines(_, _, _, _)
ColorLines(names, values, sep, close) ==
  IF names = <<>> THEN ""
  ELSE Head(names) \o sep \o Head(values) \o close \o ColorLines(Tail(names), Tail(values), sep, close)

generateWezTermLua(skin) ==
  LET c == skin.colors
      ansi == Ansi16(c)
  IN  "-- Retro Skin: " \o skin.name \o "\n"
      \o "local wezterm = require 'wezterm'\n"
      \o "local config = wezterm.config_builder()\n"
      \o "local colors = {\n"
      \o "  foreground = '" \o c.foreground \o "',\n"
      \o "  background = '" \o c.background \o "',\n"
      \o "  cursor_bg = '" \o c.foreground \o "',\n"
      \o "  cursor_fg = '" \o c.background \o "',\n"
      \o "  selection_bg = '" \o c.foreground \o "',\n"
      \o "  selection_fg = '" \o c.background \o "',\n"
      \o "  ansi = {\n"
      \o ColorLines([i \in 1..16 |-> "    "], ansi, "'", "',\n")
      \o "  },\n"
      \o "}\n"
      \o "config.colors = colors\n"
      \o "return config\n"

\* a key table with the sixth and seventh names exchanged
AlacrittyNamesSwapped == <<"black", "red", "green", "yellow", "blue", "cyan", "magenta", "white">>

\* the key names of the eight slots under normal: and bright:
AlacrittyNames == <<"black", "red", "green", "yellow", "blue", "magenta", "cyan", "white">>

generateAlacrittyYaml(skin) ==
  LET c == skin.colors
      ansi == Ansi16(c)
      row(n) == [i \in 1..8 |-> "    " \o n[i]]
  IN  "# Retro Skin: " \o skin.name \o "\n"
      \o "colors:\n"
      \o "  primary:\n"
      \o "    background: '" \o c.background \o "'\n"
      \o "    foreground: '" \o c.foreground \o "'\n"
      \o "  cursor:\n"
      \o "    text: '" \o c.background \o "'\n"
      \o "    cursor: '" \o c.foreground \o "'\n"
      \o "  selection:\n"
      \o "    text: '" \o c.background \o "'\n"
      \o "    background: '" \o c.foreground \o "'\n"
      \o "  normal:\n"
      \o ColorLines(row(AlacrittyNames), SubSeq(ansi, 1, 8), ": '", "'\n")
      \o "  bright:\n"
      \o ColorLines(row(AlacrittyNames), SubSeq(ansi, 9, 16), ": '", "'\n")

generateKittyConfig(skin) ==
  LET c == skin.colors
      ansi == Ansi16(c)
  IN  "# Retro Skin: " \o skin.name \o "\n"
      \o "background " \o c.background \o "\n"
      \o "foreground " \o c.foreground \o "\n"
      \o "cursor " \o c.foreground \o "\n"
      \o "selection_background " \o c.foreground \o "\n"
      \o "selection_foreground " \o c.background \o "\n"
      \o ColorLines([i \in 1..16 |-> "color" \o ToString(i - 1)], ansi, " ", "\n")

generateWindowsTerminalJson(skin) ==
  LET c == skin.colors
      ansi == Ansi16(c)
  IN  "{\n"
      \o "  \"schemes\": [\n"
      \o "    {\n"
      \o "      \"name\": \"Retro Skin: " \o skin.name \o "\",\n"
      \o "      \"background\": \"" \o c.background \o "\",\n"
      \o "      \"foreground\": \"" \o c.foreground \o "\",\n"
      \o ColorLines([i \in 1..16 |-> "      \"" \o PaletteOrder[i]], ansi, "\": \"", "\",\n")
      \o "      \"cursorColor\": \"" \o c.foreground \o "\"\n"
      \o "    }\n"
      \o "  ]\n"
      \o "}\n"

Adapters ==
  {"generateWezTermLua", "generateAlacrittyYaml", "generateKittyConfig",
   "generateWindowsTerminalJson"}

AdapterText(adapter, skin) ==
  CASE adapter = "generateWezTermLua"          -> generateWezTermLua(skin)
    [] adapter = "generateAlacrittyYaml"       -> generateAlacrittyYaml(skin)
    [] adapter = "generateKittyConfig"         -> generateKittyConfig(skin)
    [] adapter = "generateWindowsTerminalJson" -> generateWindowsTerminalJson(skin)

\* one adapter call on whatever the dispatch hands it: a value without a
\* colour scheme cannot be read, a malformed colour is refused before emission
Render(adapter, arg) ==
  IF arg.type # "skin" THEN [threw |-> TRUE, error |-> "TypeError"]
  ELSE IF \E col \in ConsumedColors(arg.value.colors) : ~IsHexColor(col)
  THEN [threw |-> TRUE, error |-> "MalformedColorError"]
  ELSE [threw |-> FALSE, text |-> AdapterText(adapter, arg.value)]

----------------------------------------------------------------------------
(* cli.ts: the four command handlers                                       *)

AvailableHint == "   Available: " \o joinWith(PresetKeys, ", ")
ValidOptionsHint == "   Valid options: " \o joinWith(VALID_TERMINALS, ", ")

\* a target table without the windows-terminal branch
GenerateAdapterThreeTargets(terminalType) ==
  IF terminalType = "wezterm" THEN "generateWezTermLua"
  ELSE IF terminalType = "alacritty" THEN "generateAlacrittyYaml"
  ELSE "generateKittyConfig"

\* generate: the if / else-if chain that picks the adapter
GenerateAdapter(terminalType) ==
  IF terminalType = "wezterm" THEN "generateWezTermLua"
  ELSE IF terminalType = "alacritty" THEN "generateAlacrittyYaml"
  ELSE IF terminalType = "windows-terminal" THEN "generateWindowsTerminalJson"
  ELSE "generateKittyConfig"

\* an output path always taken relative to the working directory
GenerateOutputPathJoined(output, dir) == join(dir, output)

\* generate's output path
GenerateOutputPath(output, dir) == IF startsWith(output, "/") THEN output ELSE join(dir, output)

DryRunBanner(terminal, name) ==
  "\nDry Run - " \o toUpperCase(terminal) \o " config for \"" \o name \o "\":\n"

\* a dry run that still writes when --output is given
GenerateEmitDryRunWrites(terminal, name, config, options, dir, files) ==
  IF "output" \in DOMAIN options /\ options.output # ""
  THEN LET outputPath == GenerateOutputPath(options.output, dir)
       IN  Finished(<<Wrote(outputPath, config), Out("Config written to " \o outputPath)>>,
                    writeFileSync(files, outputPath, config), 0)
  ELSE IF "dryRun" \in DOMAIN options
  THEN Finished(<<Out(DryRunBanner(terminal, name)), Out(config),
                  Out("\nWould output to: " \o OrString(options, "output", "stdout"))>>, files, 0)
  ELSE Finished(<<Out(config)>>, files, 0)

\* generate, after the adapter returned: dry run, file, or stdout
GenerateEmit(terminal, name, config, options, dir, files) ==
  IF "dryRun" \in DOMAIN options
  THEN Finished(<<Out(DryRunBanner(terminal, name)), Out(config),
                  Out("\nWould output to: " \o OrString(options, "output", "stdout"))>>, files, 0)
  ELSE IF "output" \in DOMAIN options /\ options.output # ""
  THEN LET outputPath == GenerateOutputPath(options.output, dir)
       IN  Finished(<<Wrote(outputPath, config), Out("Config written to " \o outputPath)>>,
                    writeFileSync(files, outputPath, config), 0)
  ELSE Finished(<<Out(config)>>, files, 0)

Prepend(evs, result) == [result EXCEPT !.events = evs \o @]

\* a generate that looks the preset up before it checks the target
generateSkinFirst(terminal, skinName, options, dir, files) ==
  LET skinFn == PresetLookup(skinName) IN
  IF Missing(skinFn)
  THEN Rejected(<<Looked(skinName)>>, files, "Unknown skin: " \o skinName, AvailableHint)
  ELSE IF ~ValidTerminal(terminal)
  THEN Rejected(<<Looked(skinName)>>, files, "Invalid terminal: " \o terminal, ValidOptionsHint)
  ELSE
  LET skinConfig == Invoke(skinFn)
      before == <<Looked(skinName), Called(skinFn)>> IN
  IF skinConfig.threw THEN Uncaught(before, files, skinConfig.error)
  ELSE
  LET adapter == GenerateAdapter(toLowerCase(terminal))
      config  == Render(adapter, skinConfig)
      after   == Append(before, Rendered(adapter, skinConfig)) IN
  IF config.threw THEN Uncaught(after, files, config.error)
  ELSE Prepend(after, GenerateEmit(terminal, skinConfig.value.name, config.text,
                                   options, dir, files))

\* a generate that creates (or empties) the --output file before it renders
generateOpensFileFirst(terminal, skinName, options, dir, files) ==
  IF ~ValidTerminal(terminal)
  THEN Rejected(<<>>, files, "Invalid terminal: " \o terminal, ValidOptionsHint)
  ELSE
  LET skinFn == PresetLookup(skinName) IN
  IF Missing(skinFn)
  THEN Rejected(<<Looked(skinName)>>, files, "Unknown skin: " \o skinName, AvailableHint)
  ELSE
  LET skinConfig == Invoke(skinFn)
      before == <<Looked(skinName), Called(skinFn)>> IN
  IF skinConfig.threw THEN Uncaught(before, files, skinConfig.error)
  ELSE
  LET toFile == "output" \in DOMAIN options /\ options.output # ""
                  /\ "dryRun" \notin DOMAIN options
      outputPath == IF toFile THEN GenerateOutputPath(options.output, dir) ELSE ""
      opened  == IF toFile THEN writeFileSync(files, outputPath, "") ELSE files
      adapter == GenerateAdapter(toLowerCase(terminal))
      config  == Render(adapter, skinConfig)
      after   == before \o (IF toFile THEN <<Wrote(outputPath, "")>> ELSE <<>>)
                   \o <<Rendered(adapter, skinConfig)>> IN
  IF config.threw THEN Uncaught(after, opened, config.error)
  ELSE Prepend(after, GenerateEmit(terminal, skinConfig.value.name, config.text,
                                   options, dir, opened))

\* generate <terminal> <skin>
generate(terminal, skinName, options, dir, files) ==
  IF ~ValidTerminal(terminal)
  THEN Rejected(<<>>, files, "Invalid terminal: " \o terminal, ValidOptionsHint)
  ELSE
  LET skinFn == PresetLookup(skinName) IN
  IF Missing(skinFn)
  THEN Rejected(<<Looked(skinName)>>, files, "Unknown skin: " \o skinName, AvailableHint)
  ELSE
  LET skinConfig == Invoke(skinFn)
      before == <<Looked(skinName), Called(skinFn)>> IN
  IF skinConfig.threw THEN Uncaught(before, files, skinConfig.error)
  ELSE
  LET adapter == GenerateAdapter(toLowerCase(terminal))
      config  == Render(adapter, skinConfig)
      after   == Append(before, Rendered(adapter, skinConfig)) IN
  IF config.threw THEN Uncaught(after, files, config.error)
  ELSE Prepend(after, GenerateEmit(terminal, skinConfig.value.name, config.text,
                                   options, dir, files))

\* list
list(files) ==
  Finished(
    <<Out("\nAvailable Skins:\n")>>
      \o [i \in 1..(2 * Len(PresetKeys)) |->
            IF i % 2 = 1 THEN Called(PresetLookup(PresetKeys[(i + 1) \div 2]))
            ELSE Out("  * " \o padEnd(PresetKeys[i \div 2], 10) \o " "
                     \o PRESET_SKINS(PresetKeys[i \div 2]).name)]
      \o <<Out("\nUse: retro-skins preview <skin-name>"), Out("")>>,
    files, 0)

\* preview --terminal: no check of the key, anything unknown is rendered as kitty
PreviewAdapter(terminal) ==
  IF terminal = "wezterm" THEN "generateWezTermLua"
  ELSE IF terminal = "alacritty" THEN "generateAlacrittyYaml"
  ELSE IF terminal = "windows-terminal" THEN "generateWindowsTerminalJson"
  ELSE "generateKittyConfig"

RECURSIVE repeat(_, _)
repeat(s, n) == IF n = 0 THEN "" ELSE s \o repeat(s, n - 1)

\* preview <skin>: the summary of one skin
PreviewOne(skinName, options, files) ==
  LET skinFn == PresetLookup(skinName) IN
  IF Missing(skinFn)
  THEN Rejected(<<Looked(skinName)>>, files, "Unknown skin: " \o skinName, AvailableHint)
  ELSE
  LET made == Invoke(skinFn)
      before == <<Looked(skinName), Called(skinFn)>> IN
  IF made.threw THEN Uncaught(before, files, made.error)
  ELSE IF made.type # "skin"
  THEN \* skin.name reads as undefined; skin.colors.background cannot be read
       Uncaught(before \o <<Out("\nundefined (" \o skinName \o ")"), Out("   Colors:")>>,
                files, "TypeError")
  ELSE
  LET skin == made.value
      summary ==
        before \o
        <<Out("\n" \o skin.name \o " (" \o skinName \o ")"),
          Out("   Colors:"),
          Out("     Background: " \o skin.colors.background),
          Out("     Foreground: " \o skin.colors.foreground),
          Out("     Accent:     " \o skin.colors.accent),
          Out("     Glow:       " \o skin.colors.glow),
          Out("   Effects: "
              \o joinWith([i \in 1..Len(skin.effects) |-> skin.effects[i].type], ", "))>> IN
  IF "terminal" \in DOMAIN options /\ options.terminal # ""
  THEN LET adapter == PreviewAdapter(toLowerCase(options.terminal))
           config  == Render(adapter, made)
           heading == summary \o
                      <<Out("\n" \o toUpperCase(options.terminal) \o " Preview:"),
                        Out(repeat("-", 40)), Rendered(adapter, made)>>
       IN  IF config.threw THEN Uncaught(heading, files, config.error)
           ELSE Finished(heading \o <<Out(config.text), Out("")>>, files, 0)
  ELSE Finished(Append(summary, Out("")), files, 0)

\* preview with no skin: three lines per catalog entry
PreviewAll(files) ==
  LET entry(k) ==
        LET skin == PRESET_SKINS(k)
        IN  <<Called(PresetLookup(k)),
              Out("  " \o k \o ":"),
              Out("    Name:      " \o skin.name),
              Out("    Colors:    " \o skin.colors.background \o " -> " \o skin.colors.foreground),
              Out("    Effects:   " \o ToString(Len(skin.effects)) \o " active")>>
      all[i \in 0..Len(PresetKeys)] ==
        IF i = 0 THEN <<Out("\nAll Skins Preview:\n")>> ELSE all[i - 1] \o entry(PresetKeys[i])
  IN  Finished(Append(all[Len(PresetKeys)], Out("")), files, 0)

\* preview [skin]
preview(args, options, files) ==
  IF "skin" \in DOMAIN args /\ args.skin # ""
  THEN PreviewOne(args.skin, options, files)
  ELSE PreviewAll(files)

\* apply: the comment line put in front of the adapter's text
ApplyHeader(terminalType) ==
  IF terminalType = "wezterm"
  THEN "// WezTerm config - copy to ~/.config/wezterm/retro_skin.lua\n\n"
  ELSE IF terminalType = "alacritty"
  THEN "# Alacritty config - copy to ~/.config/alacritty/retro_skin.yml\n\n"
  ELSE IF terminalType = "windows-terminal"
  THEN "// Windows Terminal config - add scheme to settings.json\n\n"
  ELSE "# Kitty config - copy to ~/.config/kitty/retro_skin.conf\n\n"

\* apply: the if / else-if chain that picks the adapter
ApplyAdapter(terminalType) ==
  IF terminalType = "wezterm" THEN "generateWezTermLua"
  ELSE IF terminalType = "alacritty" THEN "generateAlacrittyYaml"
  ELSE IF terminalType = "windows-terminal" THEN "generateWindowsTerminalJson"
  ELSE "generateKittyConfig"

\* an apply that shows the prompt before it looks at the target key
applyStartPromptsFirst(terminal, files) ==
  Finished(<<Prompted(PresetKeys)>>, files, NoExit)

\* apply <terminal>, up to the await of the prompt
applyStart(terminal, files) ==
  IF ~ValidTerminal(terminal)
  THEN Rejected(<<>>, files, "Invalid terminal: " \o terminal, ValidOptionsHint)
  ELSE Finished(<<Prompted(PresetKeys)>>, files, NoExit)

\* apply <terminal>, from the answer of the prompt on
applyAnswer(terminal, answer, options, dir, files) ==
  LET selectedSkinFn == PresetLookup(answer)
      skinConfig == Invoke(selectedSkinFn)
      before == <<Looked(answer), Called(selectedSkinFn)>> IN
  IF skinConfig.threw THEN Uncaught(before, files, skinConfig.error)
  ELSE
  LET terminalType == toLowerCase(terminal)
      adapter == ApplyAdapter(terminalType)
      made    == Render(adapter, skinConfig)
      after   == Append(before, Rendered(adapter, skinConfig)) IN
  IF made.threw THEN Uncaught(after, files, made.error)
  ELSE
  LET config == ApplyHeader(terminalType) \o made.text IN
  IF "output" \in DOMAIN options /\ options.output # ""
  THEN LET outputPath == join(dir, options.output)
       IN  Finished(after \o <<Wrote(outputPath, config), Out("Config written to " \o outputPath)>>,
                    writeFileSync(files, outputPath, config), 0)
  ELSE Finished(after \o <<Out("\nGenerated Config:\n"), Out(config)>>, files, 0)

----------------------------------------------------------------------------
(* skins.ts with object identity.  The heap is a sequence of objects, an   *)
(* address is an index into it.  An object holds its properties; `refs`    *)
(* names the properties whose value is the address of another object.  An  *)
(* array holds the addresses of its elements.                              *)

MaxCalls == 2     \* producer calls in one behaviour
MaxWrites == 1    \* property writes callers make in one behaviour

Object(kind, props, refs) == [kind |-> kind, props |-> props, refs |-> refs]
Array(items) == [kind |-> "Array", items |-> items]

\* { type, intensity, params: {...} }: the params object, then the effect
NewEffect(h, e) ==
  LET withParams == Append(h, Object("Params", e.params, {}))
  IN  Append(withParams,
             Object("VisualEffect",
                    [type |-> e.type, intensity |-> e.intensity, params |-> Len(withParams)],
                    {"params"}))

\* [ e1, e2, ... ]: the elements left to right, then the array
RECURSIVE NewEffects(_, _, _)
NewEffects(h, es, made) ==
  IF es = <<>> THEN Append(h, Array(made))
  ELSE LET withEffect == NewEffect(h, Head(es))
       IN  NewEffects(withEffect, Tail(es), Append(made, Len(withEffect)))

\* { background, foreground, accent, glow, palette: {...} }
NewColors(h, c) ==
  LET withPalette == Append(h, Object("Palette", c.palette, {}))
  IN  Append(withPalette,
             Object("ColorScheme",
                    [background |-> c.background, foreground |-> c.foreground,
                     accent |-> c.accent, glow |-> c.glow, palette |-> Len(withPalette)],
                    {"palette"}))

\* the object literal a producer passes to createSkin: every evaluation
\* builds its objects anew.  The result is the heap and the literal's
\* properties (name by value, effects and colors by address).
EvalPresetLiteral(h, key) ==
  LET lit == PresetLiteral(key)
      withEffects == NewEffects(h, lit.effects, <<>>)
      withColors  == NewColors(withEffects, lit.colors)
  IN  [heap |-> withColors,
       config |-> [name |-> lit.name, effects |-> Len(withEffects), colors |-> Len(withColors)]]

\* a default performance object built once and handed to every skin
createSkinObjectSharedDefault(h, config) ==
  LET shared == {a \in 1..Len(h) : h[a].kind = "PerformanceConfig"}
      withPerf == IF shared = {} THEN Append(h, Object("PerformanceConfig", DefaultPerformance, {}))
                  ELSE h
      perf == IF shared = {} THEN Len(withPerf) ELSE CHOOSE a \in shared : TRUE
      made == Append(withPerf,
                Object("SkinConfig",
                       [name |-> OrString(config, "name", "Default"),
                        effects |-> config.effects, colors |-> config.colors,
                        performance |-> perf],
                       {"effects", "colors", "performance"}))
  IN  [heap |-> made, ref |-> Len(made)]

\* createSkin on the literal of a producer, which carries name, effects and
\* colors and no performance: the supplied objects are referenced, not
\* copied; the default performance literal and the result are new objects
createSkinObject(h, config) ==
  LET withPerf == Append(h, Object("PerformanceConfig", DefaultPerformance, {}))
      made == Append(withPerf,
                Object("SkinConfig",
                       [name |-> OrString(config, "name", "Default"),
                        effects |-> config.effects, colors |-> config.colors,
                        performance |-> Len(withPerf)],
                       {"effects", "colors", "performance"}))
  IN  [heap |-> made, ref |-> Len(made)]

\* PRESET_SKINS[key]() on the heap
ProduceObject(h, key) ==
  LET lit == EvalPresetLiteral(h, key)
  IN  createSkinObject(lit.heap, lit.config)

\* the addresses an object refers to
RefsOf(h, a) ==
  IF h[a].kind = "Array" THEN {h[a].items[i] : i \in 1..Len(h[a].items)}
  ELSE {h[a].props[p] : p \in h[a].refs}

\* everything a caller can reach from the reference it holds
RECURSIVE Reachable(_, _)
Reachable(h, a) == {a} \cup UNION {Reachable(h, b) : b \in RefsOf(h, a)}

\* the value a caller reads through a reference
RECURSIVE Read(_, _)
Read(h, a) ==
  IF h[a].kind = "Array" THEN [i \in 1..Len(h[a].items) |-> Read(h, h[a].items[i])]
  ELSE [p \in DOMAIN h[a].props |->
          IF p \in h[a].refs THEN Read(h, h[a].props[p]) ELSE h[a].props[p]]

\* one write a caller can make to an object it reached
Written(obj) ==
  CASE obj.kind = "SkinConfig"        -> [obj EXCEPT !.props.name = "Renamed"]
    [] obj.kind = "Array"             -> [obj EXCEPT !.items = <<>>]
    [] obj.kind = "VisualEffect"      -> [obj EXCEPT !.props.intensity = 0]
    [] obj.kind = "Params"            -> [obj EXCEPT !.props = <<>>]
    [] obj.kind = "ColorScheme"       -> [obj EXCEPT !.props.background = "#FFFFFF"]
    [] obj.kind = "Palette"           -> [obj EXCEPT !.props.black = "#FFFFFF"]
    [] obj.kind = "PerformanceConfig" -> [obj EXCEPT !.props.targetFps = 1]

\* the module object PRESET_SKINS: six own keys, each bound to its producer
CatalogObject ==
  Object("Catalog", [k \in CatalogKeys |-> [kind |-> "producer", key |-> k]], {})

\* the keys of the producers a command called, in call order
ProducersCalled(evs) ==
  LET calls == SelectSeq(evs, LAMBDA e : e.kind = "call" /\ e.fn.kind = "producer")
  IN  [i \in 1..Len(calls) |-> calls[i].fn.key]

\* an object whose references are moved up by d addresses
Relocate(obj, d) ==
  IF obj.kind = "Array" THEN [obj EXCEPT !.items = [i \in 1..Len(@) |-> @[i] + d]]
  ELSE [obj EXCEPT !.props = [p \in DOMAIN @ |-> IF p \in obj.refs THEN @[p] + d ELSE @[p]]]

\* the objects one call of a producer builds, placed after those of h
ProduceAfter(h, key) ==
  LET made == ProduceObject(<<>>, key)
  IN  [heap |-> h \o [i \in 1..Len(made.heap) |-> Relocate(made.heap[i], Len(h))],
       ref  |-> made.ref + Len(h)]

\* skinFn() for each of the keys in turn: every call builds a new skin
RECURSIVE ProduceAll(_, _, _)
ProduceAll(h, hs, keys) ==
  IF keys = <<>> THEN [heap |-> h, handles |-> hs]
  ELSE LET made == ProduceAfter(h, Head(keys))
       IN  ProduceAll(made.heap,
                      Append(hs, [key |-> Head(keys), root |-> made.ref, wrote |-> FALSE]),
                      Tail(keys))

\* a handler that keeps the skin it produced in the catalog, in place of the producer
CommandHeapMemoizing(h, hs, evs) ==
  LET keys  == ProducersCalled(evs)
      after == ProduceAll(h, hs, keys)
  IN  [after EXCEPT !.heap[1].props =
         [k \in DOMAIN @ |->
            IF \E i \in 1..Len(keys) : keys[i] = k THEN [kind |-> "memo", key |-> k] ELSE @[k]]]

\* what a command does to the objects of the process: each skinFn() of a
\* producer builds a new skin; the handlers and the adapters only read the
\* catalog and the skins, no statement of cli.ts assigns to either
CommandHeap(h, hs, evs) == ProduceAll(h, hs, ProducersCalled(evs))

----------------------------------------------------------------------------
(* engine.ts: RetroRenderEngine, with the page and the browser it runs in. *)
(* A method is an operator from the state before the call to the state     *)
(* after it; the state is the record This: the engine's fields, the        *)
(* elements, the browser's frame requests, and the events of the call.     *)
(* Timestamps are whole milliseconds.                                      *)

\* null
Null == [kind |-> "null"]

\* RenderContext.animationId before any request id is stored in it
NullId == 0 - 1

StyleProperties ==
  {"--retro-bg", "--retro-fg", "--retro-accent", "--retro-glow",
   "backgroundColor", "color", "textShadow", "transform", "filter"}

\* an element no engine has touched: no inline style, no children
FreshElement == [style |-> [p \in StyleProperties |-> ""], children |-> {}]

\* the HTMLElements of the page: the one element the engine is given
Elements == {"terminal"}

\* window.requestAnimationFrame / cancelAnimationFrame, seen from outside
Requested(id) == [kind |-> "request", id |-> id]
Cancelled(id) == [kind |-> "cancel", id |-> id]
\* applyAnimatedEffects was entered
Applied(timestamp) == [kind |-> "apply", timestamp |-> timestamp]

\* the callback list is empty, no frame is being run, the clock is at 0
FreshBrowser == [now |-> 0, nextId |-> 1, pending |-> {}, frame |-> <<>>, frames |-> 0]

\* new RetroRenderEngine(): lines 344-348
NewEngine ==
  [context |-> Null, effects |-> <<>>, shakeOffset |-> [x |-> 0, y |-> 0],
   animationFrame |-> 0, lastTime |-> 0]



requestAnimationFrame(w) ==
  LET id == w.browser.nextId IN
  [w EXCEPT !.browser.nextId = id + 1,
            !.browser.pending = @ \cup {id},
            !.events = Append(@, Requested(id))]

\* a cancelled callback is not run, also when its frame has begun
cancelAnimationFrame(w, id) ==
  [w EXCEPT !.browser.pending = @ \ {id},
            !.browser.frame = SelectSeq(@, LAMBDA i : i # id),
            !.events = Append(@, Cancelled(id))]

\* Map.prototype.set
MapSet(map, key, value) ==
  [k \in DOMAIN map \cup {key} |-> IF k = key THEN value ELSE map[k]]

\* config.effects.forEach(effect => this.effects.set(effect.type, effect))
RECURSIVE SetEach(_, _)
SetEach(map, effs) ==
  IF effs = <<>> THEN map
  ELSE SetEach(MapSet(map, Head(effs).type, Head(effs)), Tail(effs))

\* this.effects.get(type)?.intensity || 0
IntensityOf(map, type) == IF type \in DOMAIN map THEN map[type].intensity ELSE 0

\* effect.params?.name || fallback
ParamOr(effect, name, fallback) ==
  IF name \in DOMAIN effect.params /\ effect.params[name] # 0
  THEN effect.params[name] ELSE fallback

SetStyle(w, element, property, value) ==
  [w EXCEPT !.dom[element].style[property] = value]

\* `0 0 ${glowIntensity * 4}px ${glow}`, the length in hundredths of a pixel
GlowShadow(glowIntensity, glow) ==
  "0 0 " \o ToString(glowIntensity * 4) \o "e-2px " \o glow

\* applyBaseStyles: lines 375-393
applyBaseStyles(w, element, config) ==
  LET glowIntensity == IntensityOf(w.effects, "phosphor-glow")
      colored == [w EXCEPT !.dom[element].style =
                    [p \in StyleProperties |->
                       CASE p = "--retro-bg"      -> config.colors.background
                         [] p = "--retro-fg"      -> config.colors.foreground
                         [] p = "--retro-accent"  -> config.colors.accent
                         [] p = "--retro-glow"    -> config.colors.glow
                         [] p = "backgroundColor" -> config.colors.background
                         [] p = "color"           -> config.colors.foreground
                         [] OTHER                 -> @[p]]]
  IN  IF glowIntensity > 0
      THEN SetStyle(colored, element, "textShadow", GlowShadow(glowIntensity, config.colors.glow))
      ELSE colored

\* startAnimation: line 418 (the callback it defines is animate, below)
startAnimation(w) ==
  [requestAnimationFrame(w) EXCEPT !.animationFrame = w.browser.nextId]

\* a length in ten-thousandths of a pixel
Px(n) == ToString(n) \o "e-4px"

\* `brightness(${1 + Math.sin(timestamp * 0.01 * frequency) * intensity * 0.1})`,
\* left unevaluated: the argument of the sine in ten-thousandths, the
\* amplitude in thousandths
Brightness(timestamp, frequency, intensity) ==
  "brightness(1 + sin(" \o ToString(timestamp * frequency) \o "e-4) * "
     \o ToString(intensity) \o "e-3)"

\* applyNoiseEffect: lines 490-512
applyNoiseEffect(w, element, intensity) ==
  LET filtered == SetStyle(w, element, "filter", "url('#retro-noise-filter')") IN
  IF intensity > 5 /\ "retro-noise" \notin w.dom[element].children
  THEN [filtered EXCEPT !.dom[element].children = @ \cup {"retro-noise"}]
  ELSE filtered

\* applyAnimatedEffects: lines 422-458.  randomX and randomY are the two
\* values Math.random() returns to the shake, in hundredths.
applyAnimatedEffects(w, timestamp, randomX, randomY) ==
  LET entered == [w EXCEPT !.events = Append(@, Applied(timestamp))] IN
  IF w.context = Null THEN entered
  ELSE
  LET element == w.context.element
      shaken ==
        IF "shake" \in DOMAIN w.effects /\ w.effects["shake"].intensity > 0
        THEN LET shakeIntensity == w.effects["shake"].intensity * 3
                 shakeX == (randomX - 50) * shakeIntensity
                 shakeY == (randomY - 50) * shakeIntensity
             IN  [SetStyle(entered, element, "transform",
                           "translate(" \o Px(shakeX) \o ", " \o Px(shakeY) \o ")")
                    EXCEPT !.shakeOffset = [x |-> shakeX, y |-> shakeY]]
        ELSE entered
      flickered ==
        IF "crt-flicker" \in DOMAIN w.effects /\ w.effects["crt-flicker"].intensity > 0
        THEN SetStyle(shaken, element, "filter",
                      Brightness(timestamp, ParamOr(w.effects["crt-flicker"], "frequency", 100),
                                 w.effects["crt-flicker"].intensity))
        ELSE shaken
  IN  IF "noise" \in DOMAIN w.effects /\ w.effects["noise"].intensity > 0
      THEN applyNoiseEffect(flickered, element, w.effects["noise"].intensity)
      ELSE flickered

\* a throttle that also holds back the frame that comes exactly one interval
\* after the last applied one
WithinFrameIntervalInclusive(elapsed, targetFps) ==
  IF targetFps = 0 THEN TRUE ELSE elapsed * targetFps <= 1000

\* timestamp - this.lastTime < 1000 / targetFps
WithinFrameInterval(elapsed, targetFps) ==
  IF targetFps = 0 THEN TRUE ELSE elapsed * targetFps < 1000

\* a callback that asks for the next frame before it looks at the context
animateRequestsFirst(w, timestamp, randomX, randomY) ==
  LET again == requestAnimationFrame(w) IN
  IF w.context = Null THEN [again EXCEPT !.animationFrame = w.browser.nextId]
  ELSE
  LET targetFps == w.context.config.performance.targetFps IN
  IF WithinFrameInterval(timestamp - w.lastTime, targetFps)
  THEN [again EXCEPT !.animationFrame = w.browser.nextId]
  ELSE [applyAnimatedEffects([again EXCEPT !.lastTime = timestamp], timestamp, randomX, randomY)
          EXCEPT !.context.animationId = w.browser.nextId]

\* animate: lines 397-416
animate(w, timestamp, randomX, randomY) ==
  IF w.context = Null THEN w
  ELSE
  LET targetFps == w.context.config.performance.targetFps IN
  IF WithinFrameInterval(timestamp - w.lastTime, targetFps)
  THEN [requestAnimationFrame(w) EXCEPT !.animationFrame = w.browser.nextId]
  ELSE LET applied == applyAnimatedEffects([w EXCEPT !.lastTime = timestamp],
                                           timestamp, randomX, randomY)
       IN  [requestAnimationFrame(applied) EXCEPT !.context.animationId = applied.browser.nextId]

\* initialize: lines 351-372
initialize(w, element, config) ==
  LET created == [w EXCEPT !.context = [element |-> element, config |-> config,
                                        animationId |-> NullId, lastRender |-> 0]]
      parsed  == [created EXCEPT !.effects = SetEach(<<>>, config.effects)]
  IN  startAnimation(applyBaseStyles(parsed, element, config))

\* an updateConfig that adds the new effects to the map without clearing it
updateConfigMerging(w, config) ==
  IF w.context = Null THEN w
  ELSE LET stored == [w EXCEPT !.context.config = config]
           parsed == [stored EXCEPT !.effects = SetEach(w.effects, config.effects)]
       IN  applyBaseStyles(parsed, w.context.element, config)

\* an updateConfig that fills the map before it looks at the context
updateConfigParsesFirst(w, config) ==
  LET parsed == [w EXCEPT !.effects = SetEach(<<>>, config.effects)] IN
  IF w.context = Null THEN parsed
  ELSE applyBaseStyles([parsed EXCEPT !.context.config = config], w.context.element, config)

\* updateConfig: lines 555-565
updateConfig(w, config) ==
  IF w.context = Null THEN w
  ELSE LET stored == [w EXCEPT !.context.config = config]
           parsed == [stored EXCEPT !.effects = SetEach(<<>>, config.effects)]
       IN  applyBaseStyles(parsed, w.context.element, config)

\* getConfig: lines 568-570
getConfig(w) == IF w.context = Null THEN Null ELSE w.context.config

\* pause: lines 573-578
pause(w) ==
  IF w.animationFrame # 0
  THEN [cancelAnimationFrame(w, w.animationFrame) EXCEPT !.animationFrame = 0]
  ELSE w

\* resume: lines 581-585
resume(w) ==
  IF w.animationFrame = 0 /\ w.context # Null THEN startAnimation(w) ELSE w

\* destroy: lines 588-607
destroy(w) ==
  LET paused == pause(w) IN
  IF paused.context = Null THEN [paused EXCEPT !.effects = <<>>]
  ELSE LET element == paused.context.element IN
       [paused EXCEPT !.dom[element].children = @ \ {"retro-noise"},
                      !.dom[element].style =
                         [p \in StyleProperties |->
                            IF p \in {"transform", "filter", "textShadow", "backgroundColor", "color"}
                            THEN "" ELSE @[p]],
                      !.context = Null,
                      !.effects = <<>>]

----------------------------------------------------------------------------

(* A page with one engine.  The caller's calls and the browser's frames    *)
(* interleave, but a frame's callbacks run one after the other with no     *)
(* call in between: scripts run to completion.                             *)

MaxFrames == 2      \* frames the browser runs
MaxRequests == 4    \* calls of requestAnimationFrame

\* milliseconds from one frame to the next
FrameGaps == {10, 25}

\* values of Math.random(), in hundredths
RandomSamples == {0, 99}

\* a skin made with createSkin: 40 frames a second, a glow that a later
\* effect of the same type turns off, a shake, and noise above 0.05
ShakySkin ==
  createSkin([name |-> "Shaky",
              effects |-> << [type |-> "phosphor-glow", intensity |-> 30, params |-> <<>>],
                             [type |-> "shake", intensity |-> 50, params |-> <<>>],
                             [type |-> "noise", intensity |-> 20, params |-> <<>>],
                             [type |-> "phosphor-glow", intensity |-> 0, params |-> <<>>] >>,
              colors |-> [background |-> "#101010", foreground |-> "#F0F0F0",
                          accent |-> "#808080", glow |-> "#FFFFFF"],
              performance |-> [gpuAcceleration |-> FALSE, targetFps |-> 40, quality |-> "low"]])

\* the configs a caller passes: a preset, the default skin (no effects) and
\* the skin above
EngineConfigs == {PRESET_SKINS("phosphor"), createSkin(<<>>), ShakySkin}

\* the caller has made no call yet
NoCalls ==
  [lifecycle |-> "new", initializeCalls |-> 0, element |-> "", passed |-> Null, paused |-> FALSE]

\* no engine has been constructed, or the one constructed has not been used
NoEngine ==
  /\ context = NewEngine.context
  /\ effects = NewEngine.effects
  /\ shakeOffset = NewEngine.shakeOffset
  /\ animationFrame = NewEngine.animationFrame
  /\ lastTime = NewEngine.lastTime
  /\ dom = [e \in Elements |-> FreshElement]
  /\ browser = FreshBrowser
  /\ last = [op |-> "none", events |-> <<>>]
  /\ caller = NoCalls

\* the state a method or a callback starts from
This ==
  [context |-> context, effects |-> effects, shakeOffset |-> shakeOffset,
   animationFrame |-> animationFrame, lastTime |-> lastTime,
   dom |-> dom, browser |-> browser, events |-> <<>>]

\* the state it leaves
Becomes(w) ==
  /\ context' = w.context
  /\ effects' = w.effects
  /\ shakeOffset' = w.shakeOffset
  /\ animationFrame' = w.animationFrame
  /\ lastTime' = w.lastTime
  /\ dom' = w.dom
  /\ browser' = w.browser

\* no frame is being run: the caller's script can run
ScriptCanRun == browser.frame = <<>>

CanRequest == browser.nextId <= MaxRequests

Initialize ==
  /\ ScriptCanRun /\ CanRequest
  /\ \E element \in Elements, config \in EngineConfigs :
       LET w == initialize(This, element, config) IN
       /\ Becomes(w)
       /\ last' = [op |-> "initialize", events |-> w.events]
       /\ caller' = [lifecycle |-> "live", initializeCalls |-> caller.initializeCalls + 1,
                     element |-> element, passed |-> config, paused |-> FALSE]
  /\ UNCHANGED <<cliVars, skinVars, heapVars>>

UpdateConfig ==
  /\ ScriptCanRun
  /\ \E config \in EngineConfigs :
       LET w == updateConfig(This, config) IN
       /\ Becomes(w)
       /\ last' = [op |-> "updateConfig", events |-> w.events]
       /\ caller' = IF caller.lifecycle = "live" THEN [caller EXCEPT !.passed = config]
                    ELSE caller
  /\ UNCHANGED <<cliVars, skinVars, heapVars>>

Pause ==
  /\ ScriptCanRun
  /\ LET w == pause(This) IN
       /\ Becomes(w)
       /\ last' = [op |-> "pause", events |-> w.events]
  /\ caller' = [caller EXCEPT !.paused = TRUE]
  /\ UNCHANGED <<cliVars, skinVars, heapVars>>

Resume ==
  /\ ScriptCanRun /\ CanRequest
  /\ LET w == resume(This) IN
       /\ Becomes(w)
       /\ last' = [op |-> "resume", events |-> w.events]
  /\ caller' = [caller EXCEPT !.paused = FALSE]
  /\ UNCHANGED <<cliVars, skinVars, heapVars>>

Destroy ==
  /\ ScriptCanRun
  /\ LET w == destroy(This) IN
       /\ Becomes(w)
       /\ last' = [op |-> "destroy", events |-> w.events]
  /\ caller' = [caller EXCEPT !.lifecycle = "destroyed"]
  /\ UNCHANGED <<cliVars, skinVars, heapVars>>

\* ids in ascending order: callbacks run in the order they were requested
RECURSIVE Ascending(_)
Ascending(ids) ==
  IF ids = {} THEN <<>>
  ELSE LET least == CHOOSE i \in ids : \A j \in ids : i <= j
       IN  <<least>> \o Ascending(ids \ {least})

\* the browser begins a frame: it takes the callback list as it is now, and
\* callbacks requested from here on wait for the next frame
BeginFrame ==
  /\ ScriptCanRun
  /\ browser.frames < MaxFrames
  /\ browser.nextId + Cardinality(browser.pending) <= MaxRequests + 1
  /\ \E gap \in FrameGaps :
       browser' = [browser EXCEPT !.now = @ + gap,
                                  !.frame = Ascending(browser.pending),
                                  !.pending = {},
                                  !.frames = @ + 1]
  /\ last' = [op |-> "frame", events |-> <<>>]
  /\ UNCHANGED <<context, effects, shakeOffset, animationFrame, lastTime, dom, caller>>
  /\ UNCHANGED <<cliVars, skinVars, heapVars>>

\* the browser runs the next callback of the frame
Animate ==
  /\ browser.frame # <<>>
  /\ \E randomX \in RandomSamples, randomY \in RandomSamples :
       LET w == animate([This EXCEPT !.browser.frame = Tail(@)], browser.now, randomX, randomY)
       IN  /\ Becomes(w)
           /\ last' = [op |-> "animate", events |-> w.events]
  /\ UNCHANGED caller
  /\ UNCHANGED <<cliVars, skinVars, heapVars>>

EngineInit ==
  /\ NoEngine
  /\ call = Idle /\ ret = NotReturned
  /\ pc = "exited" /\ command = [name |-> "none"] /\ cwd = "/" /\ fs = <<>> /\ fs0 = <<>>
  /\ events = <<>> /\ exitCode = NoExit
  /\ heap = <<>> /\ handles = <<>> /\ writes = 0

EngineNext ==
  Initialize \/ UpdateConfig \/ Pause \/ Resume \/ Destroy \/ BeginFrame \/ Animate

SpecEngine == EngineInit /\ [][EngineNext]_vars

----------------------------------------------------------------------------
(* One process: the command line is drawn when the handler runs            *)

\* <terminal> arguments and --terminal values: the four keys, other spellings
\* of them, and keys that are none of them
TerminalArgs ==
  {"wezterm", "alacritty", "kitty", "windows-terminal",
   "WezTerm", "ALACRITTY", "Kitty", "Windows-Terminal",
   "invalid", "term", ""}

\* <skin> arguments: the catalog keys, unknown keys, another spelling, and
\* names of inherited properties
SkinArgs ==
  CatalogKeys \cup {"unknown", "Phosphor", "constructor", "toString",
                    "hasOwnProperty", "__proto__"}

\* --output values: relative, absolute, and relative with a parent step
OutputArgs == {"out.lua", "/tmp/retro.conf", "../themes/skin.yml"}

WorkingDirs == {"/home/user", "/home/user/project"}

Previous == "previous contents"

\* the files that exist before the command runs: none, or one at every path
\* a command of this model can write to
InitialFiles ==
  { <<>>,
    [p \in {"/home/user/out.lua", "/home/user/project/out.lua", "/tmp/retro.conf",
            "/home/themes/skin.yml", "/home/user/themes/skin.yml"} |-> Previous] }

\* an option of the command line: left out, or given with a value
Option(values) == {[given |-> FALSE]} \cup {[given |-> TRUE, value |-> v] : v \in values}

\* commander's options object: a property only for the options that were given
OptionsOf(opt) == [o \in {n \in DOMAIN opt : opt[n].given} |-> opt[o].value]

GenerateOptions ==
  { OptionsOf([output |-> o, dryRun |-> d]) : o \in Option(OutputArgs), d \in Option({TRUE}) }

ApplyOptions == { OptionsOf([output |-> o]) : o \in Option(OutputArgs) }

PreviewOptions ==
  { OptionsOf([terminal |-> t, dryRun |-> d]) : t \in Option(TerminalArgs), d \in Option({TRUE}) }

PreviewArgs == { OptionsOf([skin |-> s]) : s \in Option(SkinArgs) }

Init ==
  /\ pc = "ready"
  /\ command = [name |-> "none"]
  /\ cwd \in WorkingDirs
  /\ fs \in InitialFiles
  /\ fs0 = fs
  /\ events = <<>>
  /\ exitCode = NoExit
  /\ call = Idle /\ ret = NotReturned
  /\ heap = <<CatalogObject>> /\ handles = <<>> /\ writes = 0
  /\ NoEngine

\* the handler ran to its end, or to process.exit
Settle(cmd, result) ==
  /\ command' = cmd
  /\ events' = events \o result.events
  /\ fs' = result.fs
  /\ exitCode' = result.exitCode
  /\ pc' = IF result.exitCode = NoExit THEN "prompt" ELSE "exited"
  /\ LET after == CommandHeap(heap, handles, result.events)
     IN  heap' = after.heap /\ handles' = after.handles
  /\ UNCHANGED <<cwd, fs0, skinVars, writes, engineVars>>

List ==
  /\ pc = "ready"
  /\ Settle([name |-> "list"], list(fs))

Preview ==
  /\ pc = "ready"
  /\ \E args \in PreviewArgs, options \in PreviewOptions :
       Settle([name |-> "preview", args |-> args, options |-> options],
              preview(args, options, fs))

Generate ==
  /\ pc = "ready"
  /\ \E terminal \in TerminalArgs, skinName \in SkinArgs, options \in GenerateOptions :
       Settle([name |-> "generate", terminal |-> terminal, skin |-> skinName,
               options |-> options],
              generate(terminal, skinName, options, cwd, fs))

ApplyStart ==
  /\ pc = "ready"
  /\ \E terminal \in TerminalArgs, options \in ApplyOptions :
       Settle([name |-> "apply", terminal |-> terminal, options |-> options],
              applyStart(terminal, fs))

\* the user picks one of the choices the prompt shows
ApplyAnswer ==
  /\ pc = "prompt"
  /\ \E i \in 1..Len(events[Len(events)].choices) :
       LET answer == events[Len(events)].choices[i]
       IN  Settle([name |-> "apply", terminal |-> command.terminal,
                   options |-> command.options, answer |-> answer],
                  applyAnswer(command.terminal, answer, command.options, cwd, fs))

Next == List \/ Preview \/ Generate \/ ApplyStart \/ ApplyAnswer

Spec == Init /\ [][Next]_vars


----------------------------------------------------------------------------
SkinInit ==
  /\ call \in SkinCalls
  /\ ret = NotReturned
  /\ pc = "exited" /\ command = [name |-> "none"] /\ cwd = "/" /\ fs = <<>> /\ fs0 = <<>>
  /\ events = <<>> /\ exitCode = NoExit
  /\ heap = <<>> /\ handles = <<>> /\ writes = 0
  /\ NoEngine

SkinNext == CreateSkinCall \/ PresetCall

SpecSkin == SkinInit /\ [][SkinNext]_vars

----------------------------------------------------------------------------
(* Callers of the producers, with object identity                         *)

HeapInit ==
  /\ heap = <<>> /\ handles = <<>> /\ writes = 0
  /\ NoEngine
  /\ call = Idle /\ ret = NotReturned
  /\ pc = "exited" /\ command = [name |-> "none"] /\ cwd = "/" /\ fs = <<>> /\ fs0 = <<>>
  /\ events = <<>> /\ exitCode = NoExit

\* some caller invokes a producer and keeps the reference it gets
ProducerCall ==
  /\ Len(handles) < MaxCalls
  /\ \E key \in CatalogKeys :
       LET made == ProduceObject(heap, key) IN
       /\ heap' = made.heap
       /\ handles' = Append(handles, [key |-> key, root |-> made.ref, wrote |-> FALSE])
  /\ UNCHANGED <<writes, cliVars, skinVars, engineVars>>

\* the holder of a reference writes to an object reachable from it
CallerWrite ==
  /\ writes < MaxWrites
  /\ \E i \in 1..Len(handles) : \E a \in Reachable(heap, handles[i].root) :
       /\ heap' = [heap EXCEPT ![a] = Written(@)]
       /\ handles' = [handles EXCEPT ![i].wrote = TRUE]
  /\ writes' = writes + 1
  /\ UNCHANGED <<cliVars, skinVars, engineVars>>

HeapNext == ProducerCall \/ CallerWrite

SpecHeap == HeapInit /\ [][HeapNext]_vars

----------------------------------------------------------------------------
(* Calls of the adapters, one per behaviour: the skin and the adapter are  *)
(* drawn in AdapterInit, the call returns or signals in one step.          *)

\* a colour value of a scheme: one of its four fields, or a palette slot
GetColor(colors, path) ==
  IF Len(path) = 1 THEN colors[path[1]] ELSE colors.palette[path[2]]

SetColor(colors, path, v) ==
  IF Len(path) = 1 THEN [colors EXCEPT ![path[1]] = v]
  ELSE [colors EXCEPT !.palette = [@ EXCEPT ![path[2]] = v]]

ColorPaths(colors) ==
  {<<f>> : f \in {"background", "foreground", "accent", "glow"}}
    \cup (IF "palette" \in DOMAIN colors THEN {<<"palette", s>> : s \in DOMAIN colors.palette}
          ELSE {})

\* strings that are not #RRGGBB: shorthand, a CSS name, a letter past F, no
\* '#', five and seven digits, the empty string
MalformedColors == {"#FFF", "red", "#GGGGGG", "00FF41", "#00FF4", "#00FF411", ""}

\* #RRGGBB in lower and in mixed case
OtherSpellings == {"#00ff41", "#AbCdEf"}

\* the skin of the usage example: createSkin with a scheme that has no palette
CustomSkin ==
  createSkin([name |-> "My Custom Skin",
              effects |-> << [type |-> "crt-scanlines", intensity |-> 50, params |-> <<>>],
                             [type |-> "phosphor-glow", intensity |-> 70, params |-> <<>>] >>,
              colors |-> [background |-> "#000000", foreground |-> "#00FF00",
                          accent |-> "#00AA00", glow |-> "#00FF00"]])

\* the colour values that are replaced in a skin, one at a time
EditedPaths ==
  {<<"background">>, <<"foreground">>, <<"accent">>, <<"glow">>,
   <<"palette", "black">>, <<"palette", "purple">>, <<"palette", "brightWhite">>}

Edited(skin) ==
  { [skin EXCEPT !.colors = SetColor(@, p, v)] :
      p \in EditedPaths \cap ColorPaths(skin.colors), v \in MalformedColors \cup OtherSpellings }

\* the skins handed to an adapter: every preset, the default skin and the
\* custom skin (both without a palette), and skins of both kinds with one
\* colour value replaced
RenderSkins ==
  {PRESET_SKINS(k) : k \in CatalogKeys} \cup {createSkin(<<>>), CustomSkin}
    \cup Edited(PRESET_SKINS("phosphor")) \cup Edited(CustomSkin)

RenderCalls == { [op |-> "render", adapter |-> a, skin |-> s] : a \in Adapters, s \in RenderSkins }

RenderCall ==
  /\ call.op = "render"
  /\ ret = NotReturned
  /\ ret' = [returned |-> TRUE,
             value |-> Render(call.adapter, [threw |-> FALSE, type |-> "skin", value |-> call.skin])]
  /\ UNCHANGED <<call, cliVars, heapVars, engineVars>>

AdapterInit ==
  /\ call \in RenderCalls
  /\ ret = NotReturned
  /\ pc = "exited" /\ command = [name |-> "none"] /\ cwd = "/" /\ fs = <<>> /\ fs0 = <<>>
  /\ events = <<>> /\ exitCode = NoExit
  /\ heap = <<>> /\ handles = <<>> /\ writes = 0
  /\ NoEngine

AdapterNext == RenderCall

SpecAdapter == AdapterInit /\ [][AdapterNext]_vars

----------------------------------------------------------------------------

(* What a finished process shows                                           *)

OfKind(kind) == SelectSeq(events, LAMBDA e : e.kind = kind)

StdoutTexts == [i \in 1..Len(OfKind("stdout")) |-> OfKind("stdout")[i].text]
StderrTexts == [i \in 1..Len(OfKind("stderr")) |-> OfKind("stderr")[i].text]

ErrorTextContains(fragment) ==
  \E i \in 1..Len(StderrTexts) : includes(StderrTexts[i], fragment)

EqualsIgnoreCase(a, b) == toUpperCase(a) = toUpperCase(b)

\* the target keys of the command surface, whatever the case of their letters
IsTargetKey(t) ==
  \E k \in {"wezterm", "alacritty", "kitty", "windows-terminal"} : EqualsIgnoreCase(t, k)

\* wezterm -> Lua, alacritty -> YAML, kitty -> key/value, windows-terminal -> JSON
AdapterOfTarget(t) ==
  CASE EqualsIgnoreCase(t, "wezterm")          -> "generateWezTermLua"
    [] EqualsIgnoreCase(t, "alacritty")        -> "generateAlacrittyYaml"
    [] EqualsIgnoreCase(t, "kitty")            -> "generateKittyConfig"
    [] EqualsIgnoreCase(t, "windows-terminal") -> "generateWindowsTerminalJson"

Exited(name) == pc = "exited" /\ command.name = name

Given(options, o) == o \in DOMAIN options

\* generate ran with a valid target and a catalog preset
GenerateOfPreset ==
  Exited("generate") /\ IsTargetKey(command.terminal) /\ command.skin \in CatalogKeys

\* the text the target's adapter returns for the preset of the command line
ExpectedText(t, k) == AdapterText(AdapterOfTarget(t), PRESET_SKINS(k))

----------------------------------------------------------------------------
(* C1: generate with a target key that is none of wezterm, alacritty,      *)
(* kitty, windows-terminal (letters compared without case) exits non-zero, *)
(* reports "Invalid terminal" on stderr, calls no preset producer and no   *)
(* adapter, and leaves every file as it was.                               *)
C1_InvalidTerminalRejected ==
  (Exited("generate") /\ ~IsTargetKey(command.terminal)) =>
    /\ exitCode # 0
    /\ ErrorTextContains("Invalid terminal")
    /\ OfKind("call") = <<>>
    /\ OfKind("adapter") = <<>>
    /\ OfKind("write") = <<>>
    /\ fs = fs0

C1_Witness ==
  /\ Exited("generate")
  /\ command.terminal = "term"
  /\ command.skin = "phosphor"
  /\ DOMAIN command.options = {"output"}
  /\ exitCode = 1

(* C2: for every preset key that is not a key of the catalog, generate     *)
(* (with a valid target) and preview <key> exit non-zero with an error     *)
(* text containing "Unknown skin", call no adapter and write no file.      *)
C2_UnknownSkinRejected ==
  (\/ Exited("generate") /\ IsTargetKey(command.terminal) /\ command.skin \notin CatalogKeys
   \/ Exited("preview") /\ Given(command.args, "skin") /\ command.args.skin \notin CatalogKeys)
  =>
    /\ exitCode # 0
    /\ ErrorTextContains("Unknown skin")
    /\ OfKind("adapter") = <<>>
    /\ OfKind("write") = <<>>
    /\ fs = fs0

(* C3: for each of the 4 target keys (in any case) and each of the 6       *)
(* catalog keys, generate calls exactly one adapter exactly once, the one  *)
(* of that target, on the skin the preset's producer returned, and exits   *)
(* with code 0.                                                            *)
C3_GenerateDispatch ==
  GenerateOfPreset =>
    /\ Len(OfKind("call")) = 1
    /\ OfKind("call")[1].fn = [kind |-> "producer", key |-> command.skin]
    /\ Len(OfKind("adapter")) = 1
    /\ OfKind("adapter")[1].adapter = AdapterOfTarget(command.terminal)
    /\ OfKind("adapter")[1].arg.type = "skin"
    /\ OfKind("adapter")[1].arg.value = PRESET_SKINS(command.skin)
    /\ exitCode = 0

C3_Witness ==
  /\ GenerateOfPreset
  /\ command.terminal = "Windows-Terminal"
  /\ command.skin = "puncore"
  /\ Len(OfKind("adapter")) = 1
  /\ exitCode = 0

OutputTarget(output, dir) == IF CharAt(output, 1) = "/" THEN output ELSE join(dir, output)

C10_ApplyLikeGenerate ==
  (Exited("apply") /\ Given(command, "answer")) =>
    LET like == generate(command.terminal, command.answer, command.options, cwd, fs0)
        text == ExpectedText(command.terminal, command.answer) IN
    /\ exitCode = like.exitCode
    /\ fs = like.fs
    /\ ~Given(command.options, "output") => StdoutTexts[Len(StdoutTexts)] = text

----------------------------------------------------------------------------
(* C5: for every key of the catalog the producer returns a fully populated *)
(* SkinConfig whose effect sequence is non-empty and whose colors.palette  *)
(* has all 16 named slots, each of them, and background, foreground,       *)
(* accent and glow, matching #RRGGBB.                                      *)
C5_PresetsComplete ==
  (ret.returned /\ call.op = "preset") =>
    LET skin == ret.value IN
    /\ DOMAIN skin = SkinFields
    /\ skin.name # ""
    /\ Len(skin.effects) > 0
    /\ DOMAIN skin.performance = {"gpuAcceleration", "targetFps", "quality"}
    /\ DOMAIN skin.colors = {"background", "foreground", "accent", "glow", "palette"}
    /\ \A f \in {"background", "foreground", "accent", "glow"} : IsHexColor(skin.colors[f])
    /\ DOMAIN skin.colors.palette = PaletteSlots
    /\ Cardinality(PaletteSlots) = 16
    /\ \A slot \in PaletteSlots : IsHexColor(skin.colors.palette[slot])

C5_Witness ==
  /\ ret.returned
  /\ call.op = "preset"
  /\ call.key = "puncore"
  /\ ret.value.colors.palette.brightWhite = "#FFFFFF"

\* the defaults the documentation of createSkin gives
DocumentedDefault(field) ==
  CASE field = "name"        -> "Default"
    [] field = "effects"     -> <<>>
    [] field = "colors"      -> [background |-> "#0D0208", foreground |-> "#00FF41",
                                 accent |-> "#008F11", glow |-> "#00FF41"]
    [] field = "performance" -> [gpuAcceleration |-> TRUE, targetFps |-> 60, quality |-> "high"]

(* C7, as stated: createSkin returns a SkinConfig for every partial input; *)
(* each omitted field takes its default and each supplied field is carried *)
(* through unchanged.                                                      *)
C7_SuppliedFieldsKept ==
  (ret.returned /\ call.op = "createSkin") =>
    /\ DOMAIN ret.value = SkinFields
    /\ \A f \in SkinFields :
         ret.value[f] = IF f \in DOMAIN call.config THEN call.config[f] ELSE DocumentedDefault(f)

(* C7, amended: createSkin returns a SkinConfig for every partial input;   *)
(* each omitted field takes its default, a supplied name that is the empty *)
(* string is replaced by 'Default', and every other supplied field is      *)
(* carried through unchanged (out-of-range intensities included).          *)
C7_SuppliedFieldsKeptUnlessEmptyName ==
  (ret.returned /\ call.op = "createSkin") =>
    /\ DOMAIN ret.value = SkinFields
    /\ \A f \in SkinFields :
         ret.value[f] =
           IF f \in DOMAIN call.config /\ ~(f = "name" /\ call.config[f] = "")
           THEN call.config[f] ELSE DocumentedDefault(f)

C7_Witness ==
  /\ ret.returned
  /\ call.op = "createSkin"
  /\ DOMAIN call.config = {"name", "effects"}
  /\ call.config.name = ""
  /\ \E i \in 1..Len(call.config.effects) : call.config.effects[i].intensity > 100
  /\ ret.value.name = "Default"
  /\ ret.value.performance.targetFps = 60

----------------------------------------------------------------------------
(* C6: every invocation of a producer returns a newly constructed          *)
(* SkinConfig: what one caller writes into the value it got (or into its   *)
(* effects, colors, palette or performance objects) never shows in the     *)
(* value another call of the same or another producer returned.            *)
C6_FreshPerCall ==
  /\ \A i \in 1..Len(handles) :
       ~handles[i].wrote => Read(heap, handles[i].root) = PRESET_SKINS(handles[i].key)
  /\ \A i, j \in 1..Len(handles) :
       i # j => Reachable(heap, handles[i].root) \cap Reachable(heap, handles[j].root) = {}

C6_Witness ==
  /\ Len(handles) = 2
  /\ handles[1].key = handles[2].key
  /\ handles[1].wrote /\ ~handles[2].wrote
  /\ Read(heap, handles[1].root) # PRESET_SKINS(handles[1].key)
  /\ Read(heap, handles[2].root) = PRESET_SKINS(handles[2].key)

----------------------------------------------------------------------------
(* C11: preview <preset> --terminal <t>, with t a non-empty key that is    *)
(* none of the four target keys, exits non-zero with an error text         *)
(* containing "Invalid terminal" and prints no adapter output.             *)
C11_PreviewInvalidTerminalRejected ==
  (/\ Exited("preview")
   /\ Given(command.args, "skin") /\ command.args.skin \in CatalogKeys
   /\ Given(command.options, "terminal") /\ command.options.terminal # ""
   /\ ~IsTargetKey(command.options.terminal))
  =>
    /\ exitCode # 0
    /\ ErrorTextContains("Invalid terminal")
    /\ OfKind("adapter") = <<>>

\* an adapter call of this process ended in the given error
AdapterSignalled(error) ==
  \E i \in 1..Len(OfKind("adapter")) :
    LET made == Render(OfKind("adapter")[i].adapter, OfKind("adapter")[i].arg)
    IN  made.threw /\ made.error = error

(* C12: generate reports three distinguishable fatal conditions, each with *)
(* a non-zero exit: an unknown target key with an error text containing    *)
(* "Invalid terminal" (and not "Unknown skin"), an unknown preset key with *)
(* an error text containing "Unknown skin" (and not "Invalid terminal"),   *)
(* and a MalformedColorError of the adapter with an error text that        *)
(* contains neither.                                                       *)
C12_ThreeFatalConditions ==
  Exited("generate") =>
    /\ ~IsTargetKey(command.terminal) =>
         /\ exitCode # 0
         /\ ErrorTextContains("Invalid terminal")
         /\ ~ErrorTextContains("Unknown skin")
    /\ (IsTargetKey(command.terminal) /\ command.skin \notin CatalogKeys) =>
         /\ exitCode # 0
         /\ ErrorTextContains("Unknown skin")
         /\ ~ErrorTextContains("Invalid terminal")
    /\ AdapterSignalled("MalformedColorError") =>
         /\ exitCode # 0
         /\ StderrTexts # <<>>
         /\ ~ErrorTextContains("Unknown skin")
         /\ ~ErrorTextContains("Invalid terminal")

(* C13: in generate and apply nothing is printed to stdout and nothing is  *)
(* written before the adapter call has returned; when the adapter call     *)
(* ends in an error instead, no file is created or modified, no text       *)
(* reaches stdout and the exit code is non-zero.                           *)
C13_NoPartialOutput ==
  (pc = "exited" /\ command.name \in {"generate", "apply"} /\ OfKind("adapter") # <<>>) =>
    LET at   == CHOOSE i \in 1..Len(events) : events[i].kind = "adapter"
        made == Render(events[at].adapter, events[at].arg) IN
    /\ Len(OfKind("adapter")) = 1
    /\ \A i \in 1..(at - 1) : events[i].kind \notin {"stdout", "write"}
    /\ made.threw =>
         /\ fs = fs0
         /\ OfKind("write") = <<>>
         /\ StdoutTexts = <<>>
         /\ exitCode # 0

C13_Witness ==
  /\ Exited("generate")
  /\ Given(command.options, "output") /\ ~Given(command.options, "dryRun")
  /\ "/tmp/retro.conf" \in DOMAIN fs0
  /\ OfKind("adapter") # <<>>
  /\ AdapterSignalled("TypeError")
  /\ fs = fs0
  /\ exitCode = 1

----------------------------------------------------------------------------
\* ^#[0-9A-Fa-f]{6}$
MatchesHexPattern(s) ==
  /\ Len(s) = 7
  /\ Head(s) = "#"
  /\ \A i \in 2..7 : \E d \in 1..22 : CharAt(s, i) = CharAt("0123456789abcdefABCDEF", d)

Probe == "#010203"

\* the skin with every colour value replaced by the same well-formed one
Probed(skin) ==
  [skin EXCEPT !.colors =
     [f \in DOMAIN @ |-> IF f = "palette" THEN [s \in DOMAIN @.palette |-> Probe] ELSE Probe]]

\* an adapter consumes a colour value of a skin when its text depends on it
Consumes(adapter, skin, path) ==
  LET with(v) == [Probed(skin) EXCEPT !.colors = SetColor(@, path, v)]
  IN  AdapterText(adapter, with("#111111")) # AdapterText(adapter, with("#222222"))

----------------------------------------------------------------------------
(* Reading the 16 ANSI colours back out of a configuration text            *)

\* the positions at or after `from` where `marker` occurs in `text`
Occurrences(text, marker, from) ==
  {i \in from..(Len(text) - Len(marker) + 1) : SubSeq(text, i, i + Len(marker) - 1) = marker}

First(positions) == CHOOSE p \in positions : \A q \in positions : p <= q

\* the seven characters that follow the n-th occurrence of marker at or after from
ColorAfter(text, marker, from, n) ==
  LET all == Occurrences(text, marker, from)
      at  == CHOOSE p \in all : Cardinality({q \in all : q < p}) = n - 1
  IN  SubSeq(text, at + Len(marker), at + Len(marker) + 6)

\* Lua: the i-th quoted string of the ansi table
AnsiOfLua(text) ==
  LET table == First(Occurrences(text, "ansi = {", 1))
  IN  [i \in 1..16 |-> ColorAfter(text, "'", table, 2 * i - 1)]

\* YAML: the keys of the normal: and of the bright: mapping
AnsiOfYaml(text) ==
  LET keys   == <<"black", "red", "green", "yellow", "blue", "magenta", "cyan", "white">>
      normal == First(Occurrences(text, "normal:", 1))
      bright == First(Occurrences(text, "bright:", 1))
  IN  [i \in 1..16 |->
         IF i <= 8 THEN ColorAfter(text, " " \o keys[i] \o ": '", normal, 1)
         ELSE ColorAfter(text, " " \o keys[i - 8] \o ": '", bright, 1)]

\* key/value lines: color0 .. color15
AnsiOfKitty(text) ==
  [i \in 1..16 |-> ColorAfter(text, "\ncolor" \o ToString(i - 1) \o " ", 1, 1)]

\* JSON scheme: the keys black .. brightWhite
AnsiOfJson(text) ==
  LET keys == <<"black", "red", "green", "yellow", "blue", "purple", "cyan", "white",
                "brightBlack", "brightRed", "brightGreen", "brightYellow",
                "brightBlue", "brightPurple", "brightCyan", "brightWhite">>
  IN  [i \in 1..16 |-> ColorAfter(text, "\"" \o keys[i] \o "\": \"", 1, 1)]

AnsiOf(adapter, text) ==
  CASE adapter = "generateWezTermLua"          -> AnsiOfLua(text)
    [] adapter = "generateAlacrittyYaml"       -> AnsiOfYaml(text)
    [] adapter = "generateKittyConfig"         -> AnsiOfKitty(text)
    [] adapter = "generateWindowsTerminalJson" -> AnsiOfJson(text)

(* C15: for a fixed skin the 16 ANSI colours read from the text of each of *)
(* the four adapters are the same sequence, in the order black, red,       *)
(* green, yellow, blue, purple, cyan, white and then the eight bright      *)
(* variants: the palette's values when the skin has a palette, and one     *)
(* derived sequence of 16 colours when it has none.                        *)
C15_SamePaletteAcrossFormats ==
  (ret.returned /\ call.op = "render" /\ ~ret.value.threw) =>
    LET colors == call.skin.colors
        mine   == AnsiOf(call.adapter, ret.value.text) IN
    /\ \A a \in Adapters :
         LET other == Render(a, [threw |-> FALSE, type |-> "skin", value |-> call.skin])
         IN  ~other.threw /\ AnsiOf(a, other.text) = mine
    /\ \A i \in 1..16 : MatchesHexPattern(mine[i])
    /\ "palette" \in DOMAIN colors =>
         mine = <<colors.palette.black, colors.palette.red, colors.palette.green,
                  colors.palette.yellow, colors.palette.blue, colors.palette.purple,
                  colors.palette.cyan, colors.palette.white,
                  colors.palette.brightBlack, colors.palette.brightRed,
                  colors.palette.brightGreen, colors.palette.brightYellow,
                  colors.palette.brightBlue, colors.palette.brightPurple,
                  colors.palette.brightCyan, colors.palette.brightWhite>>

C15_Witness ==
  /\ ret.returned
  /\ call.op = "render"
  /\ call.adapter = "generateWindowsTerminalJson"
  /\ "palette" \notin DOMAIN call.skin.colors
  /\ call.skin.colors.accent = "#AbCdEf"
  /\ ~ret.value.threw
  /\ AnsiOf(call.adapter, ret.value.text)[16] # call.skin.colors.foreground

----------------------------------------------------------------------------
----------------------------------------------------------------------------
\* the preset key the command line gave to generate (with a valid target) or
\* to preview, when it is not a key of the catalog
UnrecognizedKeyLookedUp ==
  \/ /\ Exited("generate") /\ IsTargetKey(command.terminal)
     /\ command.skin \notin {"phosphor", "amber", "lcd", "cyber", "terminal", "puncore"}
  \/ /\ Exited("preview") /\ Given(command.args, "skin")
     /\ command.args.skin \notin {"phosphor", "amber", "lcd", "cyber", "terminal", "puncore"}

(* C17: the lookup of a key that is none of phosphor, amber, lcd, cyber,   *)
(* terminal, puncore (names every object inherits included) yields         *)
(* absence and raises nothing: nothing is called, and the dispatch takes   *)
(* its unknown-skin branch.                                                *)
C17_UnrecognizedKeyIsAbsent ==
  UnrecognizedKeyLookedUp =>
    /\ Len(OfKind("lookup")) = 1
    /\ PresetLookup(OfKind("lookup")[1].key).kind = "undefined"
    /\ OfKind("call") = <<>>
    /\ ~ErrorTextContains("Uncaught")
    /\ ErrorTextContains("Unknown skin: " \o OfKind("lookup")[1].key)
    /\ exitCode = 1

----------------------------------------------------------------------------
\* the stdout lines of the process that mention the text
LinesWith(text) == {i \in 1..Len(StdoutTexts) : includes(StdoutTexts[i], text)}

----------------------------------------------------------------------------
\* background and foreground of each preset, as the README's table of
\* available skins gives them
DocumentedPair(key) ==
  CASE key = "phosphor" -> <<"#0D0208", "#00FF41">>
    [] key = "amber"    -> <<"#1A0F00", "#FFB000">>
    [] key = "lcd"      -> <<"#0A0A0A", "#E8E8E8">>
    [] key = "cyber"    -> <<"#0D0D1A", "#B388FF">>
    [] key = "terminal" -> <<"#0C0C14", "#4AF626">>
    [] key = "puncore"  -> <<"#575757", "#858585">>

(* C19: the skin each preset's producer returns has the documented         *)
(* background and foreground (phosphor #0D0208/#00FF41, amber              *)
(* #1A0F00/#FFB000, lcd #0A0A0A/#E8E8E8, cyber #0D0D1A/#B388FF, terminal   *)
(* #0C0C14/#4AF626, puncore #575757/#858585), and the black slot of its    *)
(* palette equals its background.                                          *)
C19_DocumentedColors ==
  (ret.returned /\ call.op = "preset") =>
    /\ ret.value.colors.background = DocumentedPair(call.key)[1]
    /\ ret.value.colors.foreground = DocumentedPair(call.key)[2]
    /\ "palette" \in DOMAIN ret.value.colors
    /\ "black" \in DOMAIN ret.value.colors.palette
    /\ ret.value.colors.palette.black = ret.value.colors.background

C19_Witness ==
  /\ ret.returned
  /\ call.op = "preset"
  /\ call.key = "lcd"
  /\ ret.value.colors.background = "#0A0A0A"
  /\ ret.value.colors.palette.black = "#0A0A0A"

----------------------------------------------------------------------------
\* some line of stdout or stderr mentions the text
AnyTextContains(fragment) ==
  \E i \in 1..Len(events) :
    events[i].kind \in {"stdout", "stderr"} /\ includes(events[i].text, fragment)

(* C20: generate checks the target key before the preset key: when neither *)
(* is known, the one error reported is "Invalid terminal", the catalog is  *)
(* not consulted, and "Unknown skin" is printed nowhere.                   *)
C20_TargetCheckedFirst ==
  (/\ Exited("generate")
   /\ ~IsTargetKey(command.terminal)
   /\ command.skin \notin {"phosphor", "amber", "lcd", "cyber", "terminal", "puncore"})
  =>
    /\ Len(StderrTexts) = 1
    /\ StderrTexts[1] = "Invalid terminal: " \o command.terminal
    /\ OfKind("lookup") = <<>>
    /\ ~AnyTextContains("Unknown skin")
    /\ exitCode # 0

C20_Witness ==
  /\ Exited("generate")
  /\ command.terminal = "invalid"
  /\ command.skin = "unknown"
  /\ StderrTexts = <<"Invalid terminal: invalid">>
  /\ exitCode = 1

----------------------------------------------------------------------------
\* the keys looked up in the catalog, in order
LookedUpKeys == [i \in 1..Len(OfKind("lookup")) |-> OfKind("lookup")[i].key]

\* the choices of the selection prompts shown, in order
PromptChoices == [i \in 1..Len(OfKind("prompt")) |-> OfKind("prompt")[i].choices]

SetOf(seq) == {seq[i] : i \in 1..Len(seq)}

(* C21: apply looks at the target key before it prompts.  With a target    *)
(* key that is none of the four it has exited non-zero with "Invalid       *)
(* terminal" and has shown no prompt.  With one of the four it shows one   *)
(* prompt whose choices are exactly the catalog keys, every key it looks   *)
(* up afterwards is a catalog key, and "Unknown skin" is printed nowhere.  *)
C21_ApplyValidatesBeforePrompt ==
  command.name = "apply" =>
    /\ ~IsTargetKey(command.terminal) =>
         /\ pc = "exited"
         /\ exitCode # 0
         /\ ErrorTextContains("Invalid terminal")
         /\ OfKind("prompt") = <<>>
         /\ OfKind("lookup") = <<>>
    /\ IsTargetKey(command.terminal) =>
         /\ Len(PromptChoices) = 1
         /\ events[1].kind = "prompt"
         /\ SetOf(PromptChoices[1]) = {"phosphor", "amber", "lcd", "cyber", "terminal", "puncore"}
         /\ Len(PromptChoices[1]) = 6
         /\ SetOf(LookedUpKeys) \subseteq {"phosphor", "amber", "lcd", "cyber", "terminal", "puncore"}
         /\ pc = "exited" => (Len(LookedUpKeys) = 1 /\ LookedUpKeys[1] = command.answer)
         /\ ~AnyTextContains("Unknown skin")
         /\ exitCode \in {NoExit, 0}

\* an apply with a valid target went through the prompt to its end
C21_Witness ==
  /\ Exited("apply")
  /\ command.terminal = "Kitty"
  /\ command.answer = "puncore"
  /\ Len(PromptChoices) = 1
  /\ LookedUpKeys = <<"puncore">>
  /\ exitCode = 0

----------------------------------------------------------------------------
(* What the page shows of the engine                                       *)

\* the callbacks requested and neither run nor cancelled yet
PendingCallbacks == browser.pending \cup SetOf(browser.frame)

\* the events of one kind in the last step
LastOfKind(kind) == SelectSeq(last.events, LAMBDA e : e.kind = kind)

(* C22: pause() on an engine that was initialized once and has one         *)
(* animation frame callback pending leaves no callback pending, so that no *)
(* frame callback runs or applies animated effects until resume(),         *)
(* whatever number of frames had run before the pause.                     *)
C22_PauseStopsAnimation ==
  [][(/\ last'.op = "pause"
      /\ caller.initializeCalls = 1
      /\ Cardinality(PendingCallbacks) = 1) => PendingCallbacks' = {}]_vars

(* C23: at most one animation frame callback of the engine is pending at   *)
(* any time, whatever the caller calls and whatever frames have run.       *)
C23_OnePendingCallback == Cardinality(PendingCallbacks) <= 1

\* the inline styles destroy() resets
ResetStyles == {"transform", "filter", "textShadow", "backgroundColor", "color"}

(* C24: after destroy() and until a later initialize, getConfig() returns  *)
(* null, the active effect map is empty, and a frame callback that fires   *)
(* applies no effect and requests no frame: the element keeps the reset    *)
(* styles and has no noise child.                                          *)
C24_DestroyedEngineIsInert ==
  caller.lifecycle = "destroyed" =>
    /\ getConfig(This) = Null
    /\ DOMAIN effects = {}
    /\ last.op = "animate" => last.events = <<>>
    /\ \A e \in Elements :
         /\ \A p \in ResetStyles : dom[e].style[p] = ""
         /\ "retro-noise" \notin dom[e].children

\* a callback that destroy() left pending has fired on the destroyed engine,
\* after frames of the Shaky skin had been applied
C24_Witness ==
  /\ caller.lifecycle = "destroyed"
  /\ caller.passed = ShakySkin
  /\ last.op = "animate"
  /\ last.events = <<>>
  /\ lastTime > 0
  /\ browser.now > lastTime

(* C25: getConfig() returns null before the first initialize and after     *)
(* destroy, and otherwise the config most recently passed to initialize or *)
(* updateConfig; an updateConfig on an engine without a context leaves the *)
(* context, the effect map and the elements' styles as they were.          *)
C25_GetConfig ==
  /\ [](/\ caller.lifecycle \in {"new", "destroyed"} => getConfig(This) = Null
        /\ caller.lifecycle = "live" => getConfig(This) = caller.passed)
  /\ [][(last'.op = "updateConfig" /\ caller.lifecycle # "live")
          => UNCHANGED <<context, effects, dom>>]_vars

\* updateConfig replaced the config of a running engine
C25_Witness ==
  /\ last.op = "updateConfig"
  /\ caller.lifecycle = "live"
  /\ caller.passed = ShakySkin
  /\ getConfig(This) = ShakySkin
  /\ dom["terminal"].style["--retro-fg"] = "#F0F0F0"
  /\ browser.frames > 0

\* the effect types that occur in a sequence of effects
TypesIn(effs) == {effs[i].type : i \in 1..Len(effs)}

\* the last effect of the type in the sequence
LastOfType(effs, type) ==
  effs[CHOOSE i \in 1..Len(effs) :
         effs[i].type = type /\ \A j \in (i + 1)..Len(effs) : effs[j].type # type]

(* C26: while the engine has a context, its effect map holds exactly the   *)
(* effect types of the config passed last to initialize or updateConfig,   *)
(* each bound to the last effect of that type in the config's sequence;    *)
(* nothing of an earlier config remains.                                   *)
C26_EffectMapIsOfLatestConfig ==
  caller.lifecycle = "live" =>
    /\ DOMAIN effects = TypesIn(caller.passed.effects)
    /\ \A type \in DOMAIN effects : effects[type] = LastOfType(caller.passed.effects, type)

\* updateConfig replaced the phosphor preset (whose glow is still on the
\* element) by the skin that names phosphor-glow twice
C26_Witness ==
  /\ last.op = "updateConfig"
  /\ caller.lifecycle = "live"
  /\ caller.passed = ShakySkin
  /\ dom["terminal"].style["textShadow"] = "0 0 240e-2px #00FF41"
  /\ DOMAIN effects = {"phosphor-glow", "shake", "noise"}
  /\ effects["phosphor-glow"].intensity = 0

(* C27: a frame callback that fires at timestamp t on an engine with a     *)
(* context requests exactly one further frame.  If t - lastTime is at      *)
(* least 1000 / targetFps it applies the animated effects once and sets    *)
(* lastTime to t; otherwise it applies nothing and leaves lastTime, the    *)
(* context, the effect map and the elements as they were.  No other step   *)
(* changes lastTime, so two applied frames in a row are at least           *)
(* 1000 / targetFps apart.                                                 *)
C27_FrameThrottling ==
  [][/\ (last'.op = "animate" /\ context # Null) =>
          LET t == browser.now
              targetFps == context.config.performance.targetFps
              due == (t - lastTime) * targetFps >= 1000
              requests == SelectSeq(last'.events, LAMBDA e : e.kind = "request")
              applies == SelectSeq(last'.events, LAMBDA e : e.kind = "apply")
          IN  /\ Len(requests) = 1
              /\ Cardinality(PendingCallbacks') = Cardinality(PendingCallbacks)
              /\ due => (applies = <<Applied(t)>> /\ lastTime' = t)
              /\ ~due => (applies = <<>> /\ UNCHANGED <<lastTime, context, effects, dom>>)
     /\ last'.op # "animate" => lastTime' = lastTime]_vars

\* a frame exactly one interval after the last applied one was applied: 25 ms
\* at 40 frames a second
C27_Witness ==
  /\ last.op = "animate"
  /\ context # Null
  /\ context.config = ShakySkin
  /\ LastOfKind("apply") = <<Applied(25)>>
  /\ lastTime = 25
  /\ browser.now = 25
  /\ dom["terminal"].style["filter"] = "url('#retro-noise-filter')"

\* the skin's glow is on: the effect bound to phosphor-glow (the last of that
\* type) has an intensity above 0
GlowIsOn(config) ==
  /\ "phosphor-glow" \in TypesIn(config.effects)
  /\ LastOfType(config.effects, "phosphor-glow").intensity > 0

(* C28: while the engine has a context, the element it was given carries a *)
(* text-shadow if and only if the glow of the config passed last to        *)
(* initialize or updateConfig is on, and its background and text colours   *)
(* are the background and the foreground of that config.                   *)
C28_BaseStylesFollowConfig ==
  caller.lifecycle = "live" =>
    LET style  == dom[caller.element].style
        config == caller.passed
    IN  /\ (style["textShadow"] # "") <=> GlowIsOn(config)
        /\ style["backgroundColor"] = config.colors.background
        /\ style["color"] = config.colors.foreground

----------------------------------------------------------------------------
(* C29: in the skin each preset's producer returns, every effect has an    *)
(* intensity from 0 to 1 (0 to 100 hundredths) and no two effects have the *)
(* same type, so the effect map the engine builds from it has one entry    *)
(* for each effect of the preset.                                          *)
C29_PresetEffectsWellFormed ==
  (ret.returned /\ call.op = "preset") =>
    LET effs == ret.value.effects IN
    /\ \A i \in 1..Len(effs) : effs[i].intensity >= 0 /\ effs[i].intensity <= 100
    /\ \A i, j \in 1..Len(effs) : effs[i].type = effs[j].type => i = j
    /\ Cardinality(DOMAIN SetEach(<<>>, effs)) = Len(effs)

\* the preset with the smallest intensity (noise, 0.05) and five effects
C29_Witness ==
  /\ ret.returned
  /\ call.op = "preset"
  /\ call.key = "cyber"
  /\ Len(ret.value.effects) = 5
  /\ ret.value.effects[5].intensity = 5
  /\ DOMAIN SetEach(<<>>, ret.value.effects)
       = {"crt-scanlines", "phosphor-glow", "crt-flicker", "animated-bg", "noise"}

====
